---------------------------- MODULE Spec2Model ----------------------------
(***************************************************************************)
(* A model of the evaluation core of HypnoS (src/evaluate.cpp,             *)
(* src/nnue/evaluate_nnue.cpp, src/ucioption.cpp).                         *)
(*                                                                         *)
(* Part I   NetworkStore: load_eval / save_eval and the binary format.     *)
(*          Specifications SpecNet and SpecRoundTrip.                      *)
(* Part II  The Shashin style state machine, the weight blender, the       *)
(*          option callbacks and evaluate().  Specifications Spec,         *)
(*          SpecDrift, SpecBlend, SpecWeights, SpecPhase, SpecOptions,     *)
(*          SpecOutput, SpecQuiet, SpecPenalty, SpecBalance, SpecThreads,  *)
(*          SpecDecision, SpecLimiter, SpecRecompute, SpecStyleCall and    *)
(*          SpecBlendCall.                                                 *)
(* Part III The network files: NNUE::init, NNUE::verify and                *)
(*          save_eval(filename).  Specification SpecFiles.                 *)
(* Part IV  The board: compute_material_imbalance and trace generation.    *)
(*          Specifications SpecImbalance and SpecTrace.                    *)
(*                                                                         *)
(* A stream is a sequence of words.  A 32-bit little-endian field is one   *)
(* word and a description byte is one word; reading past the end sets the  *)
(* stream's fail state, as std::istream does.                              *)
(*                                                                         *)
(* A position is a record of what the evaluation reads from the board:     *)
(* the piece counts, the eight positional indicators, the three bonus      *)
(* terms and the two scores determine_phase asks the position for.  The    *)
(* position handed to trace is a board: the piece on each of the 64        *)
(* squares, the side to move and whether it is in check.                   *)
(***************************************************************************)
EXTENDS Integers, Sequences, FiniteSets, TLC

VARIABLES
    \* ---- NetworkStore (evaluate_nnue.cpp) ----
    featureTransformer, \* [tier -> parameter words]; <<>> is the null pointer
    network,            \* [tier -> one parameter block per layer bucket]
    fileName,           \* fileName[netSize]
    netDescription,     \* netDescription[netSize]
    damaged,            \* environment: the tier whose file also comes damaged
    everLoaded,         \* history: a load_eval for the tier has returned true
    lastNet,            \* history: the last NetworkStore call, its stream (read
                        \* by a load, written by a save) and its result
    \* ---- network files (evaluate.cpp) ----
    EvalFiles,          \* [tier -> [option_name, default_name, selected_name]]
    gEmbeddedNNUE,      \* environment: [tier -> the bytes embedded in the binary]
    disk,               \* environment: [<<directory, file name>> -> bytes of the
                        \* file]; <<>> is a file that is not there
    terminated,         \* exit() has been called
    initLog,            \* history: the load_eval calls of the last NNUE::init or
                        \* save_eval(filename), in order
    \* ---- configuration (ucioption.cpp) ----
    Options,            \* [option name -> current value]
    \* ---- style state machine (evaluate.cpp) ----
    CurrentStyle,
    hysteresisTal, hysteresisPetrosian, hysteresisCapablanca,
    talCount, petrosianCount, capablancaCount,
    moveCounter,
    lastScore, lastNodeTrigger,
    lastStyle, lastChangeNodes,          \* statics of dynamic_shashin_style
    consecutiveTal, consecutivePetrosian, consecutiveCapablanca,
                                         \* statics of apply_penalty_progression
    \* ---- weight blender (evaluate_nnue.cpp) ----
    StrategyMaterialWeight, StrategyPositionalWeight,
    lastWeights,        \* statics of NNUE::update_weights: lastPhase and the
                        \* three last*Weight values
    stablePhase, stabilityCounter,       \* statics of NNUE::determine_dynamic_phase
    \* ---- search ----
    nodes,              \* Threads.nodes_searched()
    \* ---- history ----
    lastCall,           \* the last operation: its name, the path it took, what
                        \* it returned or passed on, and for the selection of
                        \* a style whether the operation before it was the
                        \* same selection
    prevStyleCallNodes, \* node count at the previous dynamic_shashin_style call
    phaseLog,           \* the phase calls so far, per phase function: the phase
                        \* last returned and the run of calls whose raw phase
                        \* differed from the stable phase
    \* ---- search threads ----
    workers,            \* per worker thread that runs evaluate step by step:
                        \* where it stands (pc), the locals of its call (pos,
                        \* score, nodesSearched), the lastNodeTrigger value
                        \* its gate check read (seen) and the exit its last
                        \* call took (path)
    lastPassed,         \* history: the score and the node count of the most
                        \* recent dynamic_shashin_style call that got past the
                        \* score gate and the node gate (nodes -1: none yet),
                        \* and the score of the most recent call that got past
                        \* the score gate (scoreGate, 0: none yet)
    \* ---- trace (evaluate.cpp, evaluate_nnue.cpp) ----
    rootPos,            \* the Position handed to trace: the piece on each
                        \* square (board), the side to move and whether the
                        \* side to move is in check (checkers)
    traceCall           \* the running Eval::trace call: where it stands (pc),
                        \* the loop's square number (i), the removed piece
                        \* (piece) and, as history, the board at entry

fileVars == <<EvalFiles, gEmbeddedNNUE, disk, terminated, initLog>>

netVars == <<featureTransformer, network, fileName, netDescription,
             damaged, everLoaded, lastNet, fileVars>>

machineVars == <<CurrentStyle, hysteresisTal, hysteresisPetrosian,
                 hysteresisCapablanca, talCount, petrosianCount, capablancaCount,
                 moveCounter, lastScore, lastNodeTrigger, lastStyle,
                 lastChangeNodes, consecutiveTal, consecutivePetrosian,
                 consecutiveCapablanca, StrategyMaterialWeight,
                 StrategyPositionalWeight, lastWeights, stablePhase,
                 stabilityCounter>>

traceVars == <<rootPos, traceCall>>

evalVars == <<Options, machineVars, nodes, lastCall, prevStyleCallNodes, phaseLog,
              workers, lastPassed, traceVars>>

vars == <<netVars, evalVars>>

----------------------------------------------------------------------------
(* Bounds of the model.                                                    *)

\* number of layer buckets modelled (the architecture's LayerStacks)
LayerStacks == 2
\* parameter words of a feature transformer block
FTWords == 1
\* parameter words of one layer-bucket block
NetWords == 1
\* number of distinct well-formed network files offered per tier
MaxNets == 2

----------------------------------------------------------------------------
(* Constants of the format.  Only their being distinct matters.            *)

Tiers == {"Big", "Small"}

Version == 3

\* HashValue[netSize]
HashValue(t) == IF t = "Big" THEN 4 ELSE 5

\* FeatureTransformer<...>::get_hash_value()
FTHashValue(t) == IF t = "Big" THEN 6 ELSE 7

\* Network<...>::get_hash_value()
NetworkHashValue(t) == IF t = "Big" THEN 8 ELSE 9

EvalFileDefaultName(t) == IF t = "Big" THEN "nn-big.nnue" ELSE "nn-small.nnue"

----------------------------------------------------------------------------
(* Sequence helpers.                                                       *)

Min(a, b) == IF a < b THEN a ELSE b
Max(a, b) == IF a > b THEN a ELSE b

Zeros(n) == [i \in 1..n |-> 0]

\* the first k elements of s that exist
Take(s, k) == SubSeq(s, 1, Min(k, Len(s)))

\* s without its first k elements
Drop(s, k) == IF k >= Len(s) THEN <<>> ELSE SubSeq(s, k + 1, Len(s))

RECURSIVE Flatten(_)
Flatten(ss) == IF ss = <<>> THEN <<>> ELSE Head(ss) \o Flatten(Tail(ss))

----------------------------------------------------------------------------
(* Reading.  A reader is [rest, ok]: the unread words and !stream.fail().  *)

\* std::istream::read of n words into a buffer holding buf: the words that are
\* there are stored, the others keep their value; fewer than n sets fail.
StreamRead(rd, n, buf) ==
    LET k == IF rd.ok THEN Min(n, Len(rd.rest)) ELSE 0
    IN  [rest |-> Drop(rd.rest, k),
         ok   |-> rd.ok /\ k = n,
         buf  |-> Take(rd.rest, k) \o Drop(buf, k)]

\* static void initialize(NetSize): fresh, zero-filled parameter storage
initializeFT == Zeros(FTWords)
initializeNetwork == [i \in 1..LayerStacks |-> Zeros(NetWords)]

\* static bool read_header(stream, hashValue, desc)
read_header(rd, desc) ==
    LET r3 == StreamRead(rd, 3, Zeros(3))
    IN  IF ~r3.ok \/ r3.buf[1] # Version
        THEN [ok |-> FALSE, rd |-> [rest |-> r3.rest, ok |-> r3.ok],
              hashValue |-> 0, desc |-> desc]
        ELSE LET size    == r3.buf[3]
                 resized == Take(desc, size) \o Zeros(size - Min(size, Len(desc)))
                 rb      == StreamRead([rest |-> r3.rest, ok |-> TRUE], size, resized)
             IN  [ok |-> rb.ok, rd |-> [rest |-> rb.rest, ok |-> rb.ok],
                  hashValue |-> r3.buf[2], desc |-> rb.buf]

\* T::read_parameters(stream) of a block of n words: returns !stream.fail()
BlockReadParameters(rd, n, old) ==
    LET r == StreamRead(rd, n, old)
    IN  [ok |-> r.ok, rd |-> [rest |-> r.rest, ok |-> r.ok], params |-> r.buf]

\* Detail::read_parameters(stream, reference): the block's hash, then the block
DetailReadParameters(rd, hash, n, old) ==
    LET h == StreamRead(rd, 1, Zeros(1))
    IN  IF ~h.ok \/ h.buf[1] # hash
        THEN [ok |-> FALSE, rd |-> [rest |-> h.rest, ok |-> h.ok], params |-> old]
        ELSE BlockReadParameters([rest |-> h.rest, ok |-> TRUE], n, old)

\* the loop over the layer buckets of read_parameters: stops at the first failure
RECURSIVE ReadBuckets(_, _, _, _)
ReadBuckets(rd, t, nets, i) ==
    IF i > LayerStacks THEN [ok |-> TRUE, rd |-> rd, nets |-> nets]
    ELSE LET b == DetailReadParameters(rd, NetworkHashValue(t), NetWords, nets[i])
             n2 == [nets EXCEPT ![i] = b.params]
         IN  IF ~b.ok THEN [ok |-> FALSE, rd |-> b.rd, nets |-> n2]
             ELSE ReadBuckets(b.rd, t, n2, i + 1)

\* a read_parameters that does not look for unconsumed bytes
ReadParametersEndNoEof(rd) == rd.ok

\* the last line of read_parameters: stream && stream.peek() == eof
ReadParametersEnd(rd) == rd.ok /\ rd.rest = <<>>

\* the comparison of the header's hash in read_parameters
HeaderHashMatches(hashValue, t) == hashValue = HashValue(t)

\* static bool read_parameters(stream, netSize), on freshly initialized storage
read_parameters(s, t, desc) ==
    LET h  == read_header([rest |-> s, ok |-> TRUE], desc)
        f  == DetailReadParameters(h.rd, FTHashValue(t), FTWords, initializeFT)
        b  == ReadBuckets(f.rd, t, initializeNetwork, 1)
    IN  IF ~h.ok
        THEN [ret |-> FALSE, desc |-> h.desc, ft |-> initializeFT, nets |-> initializeNetwork]
        ELSE IF ~HeaderHashMatches(h.hashValue, t)
        THEN [ret |-> FALSE, desc |-> h.desc, ft |-> initializeFT, nets |-> initializeNetwork]
        ELSE IF ~f.ok
        THEN [ret |-> FALSE, desc |-> h.desc, ft |-> f.params, nets |-> initializeNetwork]
        ELSE IF ~b.ok
        THEN [ret |-> FALSE, desc |-> h.desc, ft |-> f.params, nets |-> b.nets]
        ELSE [ret |-> ReadParametersEnd(b.rd), desc |-> h.desc, ft |-> f.params, nets |-> b.nets]

----------------------------------------------------------------------------
(* Writing.                                                                *)

\* static bool write_header(stream, hashValue, desc)
write_header(hashValue, desc) == <<Version, hashValue, Len(desc)>> \o desc

\* Detail::write_parameters(stream, reference)
DetailWriteParameters(hash, params) == <<hash>> \o params

\* static bool write_parameters(stream, netSize): the words written
write_parameters(t, desc, ft, nets) ==
    write_header(HashValue(t), desc)
      \o DetailWriteParameters(FTHashValue(t), ft)
      \o Flatten([i \in 1..LayerStacks |-> DetailWriteParameters(NetworkHashValue(t), nets[i])])

----------------------------------------------------------------------------
(* The streams offered to load_eval.                                       *)

\* the k-th network file of the model: its parameter words
NetFT(k) == [j \in 1..FTWords |-> k]
NetBuckets(k) == [i \in 1..LayerStacks |-> [j \in 1..NetWords |-> 1 + ((k + i) % 2)]]

Descriptions == {<<>>, <<1>>}

\* a file in the format of tier t
NetFile(t, k, d) == write_parameters(t, d, NetFT(k), NetBuckets(k))

WellFormedStreams == {NetFile(t, k, d) : t \in Tiers, k \in 1..MaxNets, d \in Descriptions}

BaseFile(t) == NetFile(t, 1, <<1>>)

CorruptWords == {0, 2}

Truncated(s) == {SubSeq(s, 1, n) : n \in 0..(Len(s) - 1)}
Altered(s)   == {[s EXCEPT ![i] = w] : i \in 1..Len(s), w \in CorruptWords}
Extended(s)  == {s \o <<w>> : w \in CorruptWords}

DamagedStreams(t) ==
    Truncated(BaseFile(t)) \cup Altered(BaseFile(t)) \cup Extended(BaseFile(t))

Streams == WellFormedStreams \cup UNION {DamagedStreams(t) : t \in Tiers}

\* The streams offered to a load of tier t: the files of both tiers and, for the
\* tier whose file is damaged in this run, every damaged form of its file.
StreamsFor(t) == WellFormedStreams \cup (IF t = damaged THEN DamagedStreams(t) ELSE {})

\* the file names load_eval is called with
Names(t) == {EvalFileDefaultName(t)}

----------------------------------------------------------------------------
(* NetworkStore operations.                                                *)

NoCall == [op |-> "none", tier |-> "Big", ret |-> FALSE, stream |-> <<>>,
           name |-> "", explicit |-> FALSE]

\* CommandLine::binaryDirectory
binaryDirectory == "bin/"

\* the file names of the model: the two default names, a network of the user's
\* and the name given to an export
CustomName == "custom.nnue"
ExportName == "out.nnue"

\* a directory the process cannot write to; files in it are not modelled
ReadOnlyName == "/ro/out.nnue"

\* <<directory, file name>>
Paths ==
    {"", binaryDirectory}
        \X ({EvalFileDefaultName(t) : t \in Tiers} \cup {CustomName, ExportName})

NoFiles == [p \in Paths |-> <<>>]

\* the embedded data of a build without embedding: one zero byte
EmbeddingOff == [t \in Tiers |-> <<0>>]

\* std::unordered_map<NNUE::NetSize, EvalFile> EvalFiles
EvalFilesInit ==
    [t \in Tiers |-> [option_name   |-> IF t = "Big" THEN "EvalFile" ELSE "EvalFileSmall",
                      default_name  |-> EvalFileDefaultName(t),
                      selected_name |-> "None"]]

InitNet ==
    /\ featureTransformer = [t \in Tiers |-> <<>>]
    /\ network = [t \in Tiers |-> <<>>]
    /\ fileName = [t \in Tiers |-> ""]
    /\ netDescription = [t \in Tiers |-> <<>>]
    /\ damaged \in Tiers
    /\ everLoaded = [t \in Tiers |-> FALSE]
    /\ lastNet = NoCall
    /\ EvalFiles = EvalFilesInit
    /\ terminated = FALSE
    /\ initLog = <<>>

\* bool load_eval(name, stream, netSize)
load_eval(name, s, t) ==
    LET r == read_parameters(s, t, netDescription[t])
    IN  /\ featureTransformer' = [featureTransformer EXCEPT ![t] = r.ft]
        /\ network' = [network EXCEPT ![t] = r.nets]
        /\ fileName' = [fileName EXCEPT ![t] = name]
        /\ netDescription' = [netDescription EXCEPT ![t] = r.desc]
        /\ everLoaded' = [everLoaded EXCEPT ![t] = @ \/ r.ret]
        /\ lastNet' = [op |-> "load", tier |-> t, ret |-> r.ret, stream |-> s,
                       name |-> name, explicit |-> TRUE]
        /\ UNCHANGED <<damaged, fileVars, evalVars>>

\* a save_eval that writes an empty description in place of the tier's
save_evalNoDescription(t) ==
    /\ IF fileName[t] = ""
       THEN lastNet' = [op |-> "save", tier |-> t, ret |-> FALSE, stream |-> <<>>,
                        name |-> "", explicit |-> FALSE]
       ELSE lastNet' = [op |-> "save", tier |-> t, ret |-> TRUE,
                        stream |-> write_parameters(t, <<>>,
                                                    featureTransformer[t], network[t]),
                        name |-> "", explicit |-> FALSE]
    /\ UNCHANGED <<featureTransformer, network, fileName, netDescription, damaged,
                   everLoaded, fileVars, evalVars>>

\* bool save_eval(std::ostream&, netSize)
save_eval(t) ==
    /\ IF fileName[t] = ""
       THEN lastNet' = [op |-> "save", tier |-> t, ret |-> FALSE, stream |-> <<>>,
                        name |-> "", explicit |-> FALSE]
       ELSE lastNet' = [op |-> "save", tier |-> t, ret |-> TRUE,
                        stream |-> write_parameters(t, netDescription[t],
                                                    featureTransformer[t], network[t]),
                        name |-> "", explicit |-> FALSE]
    /\ UNCHANGED <<featureTransformer, network, fileName, netDescription, damaged,
                   everLoaded, fileVars, evalVars>>

Load == \E t \in Tiers : \E name \in Names(t), s \in StreamsFor(t) : load_eval(name, s, t)

Save == \E t \in Tiers : save_eval(t)

NextNet == Load \/ Save

\* the name a saved stream is loaded back under
CopyName == "copy.nnue"

\* load_eval on the stream the save_eval just before it has written
Reload ==
    /\ lastNet.op = "save"
    /\ lastNet.ret
    /\ load_eval(CopyName, lastNet.stream, lastNet.tier)

NextRoundTrip == Load \/ Save \/ Reload

----------------------------------------------------------------------------
(* Properties of the NetworkStore.                                         *)

\* The file layout of a tier: version, content hash, description length n,
\* n description bytes, the feature-transformer block, one block per layer
\* bucket, and nothing after them.
Canonical(t, s) ==
    /\ Len(s) >= 3
    /\ Len(s) = 3 + s[3] + (1 + FTWords) + LayerStacks * (1 + NetWords)
    /\ s[1] = Version
    /\ s[2] = HashValue(t)
    /\ s[3 + s[3] + 1] = FTHashValue(t)
    /\ \A i \in 1..LayerStacks :
          s[3 + s[3] + 1 + FTWords + (i - 1) * (1 + NetWords) + 1] = NetworkHashValue(t)

IsPrefix(p, s) == Len(p) <= Len(s) /\ SubSeq(s, 1, Len(p)) = p

\* C2: a load_eval on a tier that holds a loaded network, given a stream whose
\* header hash is not the tier's, returns false and leaves the tier's feature
\* transformer and layer buckets as they were before the call.
C2_HashGateKeepsParameters ==
    [][ ( /\ lastNet'.op = "load"
          /\ everLoaded[lastNet'.tier]
          /\ Len(lastNet'.stream) >= 3
          /\ lastNet'.stream[2] # HashValue(lastNet'.tier) )
        => ( /\ ~lastNet'.ret
             /\ featureTransformer'[lastNet'.tier] = featureTransformer[lastNet'.tier]
             /\ network'[lastNet'.tier] = network[lastNet'.tier] ) ]_vars

\* C3: load_eval returns true exactly for a stream in the tier's layout; it
\* returns false for a stream that ends early, for a wrong version, for a wrong
\* header hash or block hash, and for a stream with bytes after the last bucket.
C3_LoadAcceptsExactlyTheFormat ==
    lastNet.op = "load" =>
        LET s == lastNet.stream
            t == lastNet.tier
        IN  /\ lastNet.ret <=> Canonical(t, s)
            /\ (\E c \in Streams : Canonical(t, c) /\ IsPrefix(s, c) /\ s # c) => ~lastNet.ret
            /\ (\E c \in Streams : Canonical(t, c) /\ IsPrefix(c, s) /\ s # c) => ~lastNet.ret
            /\ (Len(s) >= 1 /\ s[1] # Version) => ~lastNet.ret
            /\ (Len(s) >= 2 /\ s[2] # HashValue(t)) => ~lastNet.ret

\* a load that was refused only for the bytes after the last bucket
C3_Witness ==
    /\ lastNet.op = "load"
    /\ ~lastNet.ret
    /\ Len(lastNet.stream) > 1
    /\ Canonical(lastNet.tier, SubSeq(lastNet.stream, 1, Len(lastNet.stream) - 1))

\* C4: save_eval(stream, T) returns false and writes nothing as long as no
\* load_eval for T has returned true, also after loads of T that failed.
C4_SaveNeedsASuccessfulLoad ==
    (lastNet.op = "save" /\ ~everLoaded[lastNet.tier])
        => (~lastNet.ret /\ lastNet.stream = <<>>)

\* C12: in a state where load_eval has returned true for tier T, save_eval on
\* T followed at once by load_eval on the stream it wrote returns true both
\* times and leaves T's description, feature transformer and layer buckets as
\* they were.
C12_SaveThenLoadRestoresTheNetwork ==
    [][ ( /\ lastNet.op = "save"
          /\ everLoaded[lastNet.tier]
          /\ lastNet'.op = "load"
          /\ lastNet'.tier = lastNet.tier
          /\ lastNet'.stream = lastNet.stream )
        => ( /\ lastNet.ret
             /\ lastNet'.ret
             /\ netDescription'[lastNet.tier] = netDescription[lastNet.tier]
             /\ featureTransformer'[lastNet.tier] = featureTransformer[lastNet.tier]
             /\ network'[lastNet.tier] = network[lastNet.tier] ) ]_vars

\* a network file with a description, loaded, saved and loaded back from the
\* saved stream
C12_Witness ==
    /\ lastNet.op = "load"
    /\ lastNet.ret
    /\ fileName[lastNet.tier] = CopyName
    /\ netDescription[lastNet.tier] = <<1>>
    /\ lastNet.stream \in WellFormedStreams

----------------------------------------------------------------------------
(* Part II.  Arithmetic of the C++ code.                                   *)

Abs(x) == IF x < 0 THEN -x ELSE x

\* std::clamp(v, lo, hi)
Clamp(v, lo, hi) == IF v < lo THEN lo ELSE IF v > hi THEN hi ELSE v

\* int / int in C++: the quotient truncated toward zero (b > 0)
Div(a, b) == IF a >= 0 THEN a \div b ELSE -((-a) \div b)

\* std::ceil((float) a / b) for 0 <= a, 0 < b
CeilDiv(a, b) == (a + b - 1) \div b

\* static_cast<int>((1 - phaseFactor) * a + phaseFactor * b) with
\* phaseFactor = phase / 100.0f: the float expression, truncated toward zero.
\* For phase in 0..2 and |a|, |b| <= 40 the float result has the integer part
\* of the exact value ((100 - phase) * a + phase * b) / 100.
PhaseBlend(phase, a, b) == Div((100 - phase) * a + phase * b, 100)

\* A float near an integer is a pair: the integer part and the excess above it
\* in units of 2^-22.  UlpUnits(i) is the spacing of floats (24-bit mantissa)
\* around i, 32 <= i < 1024, in those units.
UlpUnits(i) ==
    IF i < 64 THEN 16 ELSE IF i < 128 THEN 32 ELSE IF i < 256 THEN 64
    ELSE IF i < 512 THEN 128 ELSE 256

\* round-to-nearest-even of an excess e on the float grid around i
RoundExcess(e, i) ==
    LET u == UlpUnits(i)
        q == e \div u
        r == e % u
    IN  IF 2 * r > u \/ (2 * r = u /\ q % 2 = 1) THEN (q + 1) * u ELSE q * u

\* hysteresis * 1.2f + v, computed in float as the code does.  1.2f is
\* (6 * 2^23 + 2) / (5 * 2^23), so h * 1.2f is 6h/5 + (h/5) * 2^-22 before
\* rounding; h is a multiple of 5 in every reachable state.
FloatThreshold(h, v) ==
    LET i1 == 6 * (h \div 5)
        e1 == RoundExcess(h \div 5, i1)
        i2 == i1 + v
    IN  [int |-> i2, excess |-> RoundExcess(e1, i2)]

\* score > t, score < -t and |score| < t for an int score and a float t
GreaterThanFloat(score, t) == score > t.int
LessThanMinusFloat(score, t) == score < -t.int
AbsLessThanFloat(score, t) == Abs(score) < t.int \/ (Abs(score) = t.int /\ t.excess > 0)

----------------------------------------------------------------------------
(* Positions and what the evaluation computes from them.                   *)

\* int piece_value(Piece)
piece_value(pt) ==
    CASE pt = "PAWN"   -> 100
      [] pt = "KNIGHT" -> 320
      [] pt = "BISHOP" -> 330
      [] pt = "ROOK"   -> 500
      [] pt = "QUEEN"  -> 900
      [] pt = "KING"   -> 20000
      [] OTHER         -> 0

\* compute_material_factor(pos), NNUE calculate_material(pos) and the
\* totalMaterial loop of evaluate(): the sum of piece_value over all non-king
\* pieces of both colours.
compute_material_factor(pos) ==
    pos.pawns * piece_value("PAWN") + pos.knights * piece_value("KNIGHT")
    + pos.bishops * piece_value("BISHOP") + pos.rooks * piece_value("ROOK")
    + pos.queens * piece_value("QUEEN")

\* PositionalIndicators compute_positional_indicators(pos)
compute_positional_indicators(pos) ==
    [kingSafety        |-> pos.kingSafety,
     openFileControl   |-> pos.openFileControl,
     centerDominance   |-> pos.centerDominance,
     materialImbalance |-> pos.materialImbalance,
     centerControl     |-> pos.centerControl,
     flankControl      |-> pos.flankControl,
     pieceActivity     |-> pos.pieceActivity,
     defensivePosition |-> pos.defense]

compute_aggressivity(pos) == pos.aggressivity
compute_position(pos) == pos.position
compute_defense(pos) == pos.defense

\* int determine_phase(pos, totalMaterial): evaluate.cpp
determine_phase(pos, totalMaterial) ==
    IF totalMaterial > 12000 /\ pos.mobility > 30 THEN 0
    ELSE IF totalMaterial > 3000 \/ pos.mobility > 15 \/ pos.pawnStructure < 50 THEN 1
    ELSE 2

\* int Eval::determine_dynamic_phase(pos): evaluate.cpp, no state
Eval_determine_dynamic_phase(pos) ==
    LET heavyPieces == pos.rooks + pos.queens
        lightPieces == pos.knights + pos.bishops
        remainingMaterial == compute_material_factor(pos)
    IN  IF remainingMaterial > 3000 /\ heavyPieces >= 4 /\ lightPieces >= 3 THEN 0
        ELSE IF remainingMaterial >= 2000 /\ remainingMaterial <= 3000
                /\ heavyPieces <= 3 /\ lightPieces >= 1 THEN 1
        ELSE IF remainingMaterial < 2000 /\ heavyPieces <= 2 /\ lightPieces <= 2
                /\ pos.advancedPawns >= 1 THEN 2
        ELSE 1

thresholdForEndgame == 1300
thresholdForMiddlegame == 2000
stabilityThreshold == 3

\* the raw, material-derived phase of NNUE::determine_dynamic_phase
RawPhase(pos) ==
    LET remainingMaterial == compute_material_factor(pos)
    IN  IF remainingMaterial <= thresholdForEndgame THEN 2
        ELSE IF remainingMaterial <= thresholdForMiddlegame THEN 1
        ELSE 0

----------------------------------------------------------------------------
(* The style state machine: evaluate.cpp.                                  *)

Styles == {"Tal", "Petrosian", "Capablanca"}

\* ShashinStyle {aggressivityWeight, positionalWeight, defensiveWeight,
\*               attack, defense, balance}
MakeStyle(ag, po, de, at, df, ba) ==
    [aggressivityWeight |-> ag, positionalWeight |-> po, defensiveWeight |-> de,
     attack |-> at, defense |-> df, balance |-> ba]

NeutralStyle == MakeStyle(0, 0, 0, 0, 0, 0)

\* void set_shashin_style(Style): the preset written to CurrentStyle
Preset(style) ==
    CASE style = "Tal"        -> MakeStyle(25, 5, 0, 25, 3, 0)
      [] style = "Capablanca" -> MakeStyle(10, 15, 10, 10, 15, 10)
      [] style = "Petrosian"  -> MakeStyle(0, 5, 25, 0, 3, 25)

\* a variant that moves CurrentStyle half of the way to the preset
set_shashin_styleHalfWay(S, style) ==
    [S EXCEPT !.CurrentStyle =
        [f \in DOMAIN Preset(style) |-> (S.CurrentStyle[f] + Preset(style)[f]) \div 2]]

set_shashin_style(S, style) == [S EXCEPT !.CurrentStyle = Preset(style)]

\* a variant that takes the style for enabled whatever the option holds
style_is_enabledAlways(opts) == TRUE

style_is_enabled(opts) == opts["Use Shashin Style"]

\* void set_shashin_style(const std::string&)
set_shashin_style_string(opts, S, style) ==
    IF ~style_is_enabled(opts) THEN [S EXCEPT !.CurrentStyle = NeutralStyle]
    ELSE IF style \in Styles THEN set_shashin_style(S, style)
    ELSE set_shashin_style(S, "Capablanca")

\* void set_shashin_custom_blend(talWeight, petrosianWeight, capablancaWeight).
\* The three ratios are floats; static_cast<int> truncates the blended value.
\* The integer part is taken of the exact quotient here: for the blend weights
\* of this model the float expression has the same integer part.
set_shashin_custom_blend(S, talWeight, petrosianWeight, capablancaWeight) ==
    LET totalWeight == talWeight + petrosianWeight + capablancaWeight
    IN  IF totalWeight = 0 THEN set_shashin_style(S, "Capablanca")
        ELSE [S EXCEPT
                !.CurrentStyle.attack =
                    Clamp(Div(25 * talWeight + 10 * capablancaWeight
                              + 0 * petrosianWeight, totalWeight), 0, 30),
                !.CurrentStyle.defense =
                    Clamp(Div(5 * talWeight + 15 * capablancaWeight
                              + 25 * petrosianWeight, totalWeight), 0, 30),
                !.CurrentStyle.balance =
                    Clamp(Div(10 * talWeight + 10 * capablancaWeight
                              + 5 * petrosianWeight, totalWeight), 0, 30)]

\* apply_penalty_progression, "Update consecutive counters based on dominant
\* style": the style the if chain counts a call for
DominantStyle(style) ==
    IF style.attack > 10 THEN "Tal"
    ELSE IF style.defense > 10 THEN "Petrosian"
    ELSE "Capablanca"

\* a variant that takes five calls for prolonged dominance
ProlongedDominanceAtFive(consecutive) == consecutive >= 5

\* apply_penalty_progression: if (consecutiveTal > 5), and the same for the
\* other two counters
ProlongedDominance(consecutive) == consecutive > 5

\* void apply_penalty_progression()
apply_penalty_progression(S) ==
    LET Count(T) ==
            IF DominantStyle(T.CurrentStyle) = "Tal"
            THEN [T EXCEPT !.consecutiveTal = @ + 1,
                           !.consecutivePetrosian = 0,
                           !.consecutiveCapablanca = 0]
            ELSE IF DominantStyle(T.CurrentStyle) = "Petrosian"
            THEN [T EXCEPT !.consecutivePetrosian = @ + 1,
                           !.consecutiveTal = 0,
                           !.consecutiveCapablanca = 0]
            ELSE [T EXCEPT !.consecutiveCapablanca = @ + 1,
                           !.consecutiveTal = 0,
                           !.consecutivePetrosian = 0]
        TalPenalty(T) ==
            IF ProlongedDominance(T.consecutiveTal)
            THEN [T EXCEPT !.hysteresisTal = @ + 10,
                           !.hysteresisPetrosian = @ - 5,
                           !.hysteresisCapablanca = @ - 5,
                           !.consecutiveTal = 0]
            ELSE T
        PetrosianPenalty(T) ==
            IF ProlongedDominance(T.consecutivePetrosian)
            THEN [T EXCEPT !.hysteresisPetrosian = @ + 10,
                           !.hysteresisTal = @ - 5,
                           !.hysteresisCapablanca = @ - 5,
                           !.consecutivePetrosian = 0]
            ELSE T
        CapablancaPenalty(T) ==
            IF ProlongedDominance(T.consecutiveCapablanca)
            THEN [T EXCEPT !.hysteresisCapablanca = @ - 10,
                           !.hysteresisTal = @ + 5,
                           !.hysteresisPetrosian = @ + 5,
                           !.consecutiveCapablanca = 0]
            ELSE T
    IN  CapablancaPenalty(PetrosianPenalty(TalPenalty(Count(S))))

\* the three std::clamp calls on the hysteresis values
ClampHysteresis(S) ==
    [S EXCEPT !.hysteresisTal = Clamp(@, 150, 500),
              !.hysteresisPetrosian = Clamp(@, 100, 400),
              !.hysteresisCapablanca = Clamp(@, 30, 200)]

\* the guard of the early return of recalibrate_parameters
NoStylesTracked(totalStyles) == totalStyles = 0

\* void recalibrate_parameters(Value score).  The ratios are floats of small
\* counts: ratio > 0.5 is 2 * count > total, ratio < 0.2 is 5 * count < total.
recalibrate_parameters(opts, S, score, bestPreviousScore) ==
    LET totalStyles == S.talCount + S.petrosianCount + S.capablancaCount
        deltaScore == Abs(bestPreviousScore - score)
        LargeDelta(T) ==
            IF deltaScore > Div(T.hysteresisTal, 2)
            THEN [T EXCEPT !.hysteresisTal = @ + 10] ELSE T
        SmallDelta(T) ==
            IF deltaScore < Div(T.hysteresisCapablanca, 3)
            THEN [T EXCEPT !.hysteresisCapablanca = @ - 5] ELSE T
        TalRatio(T) ==
            IF 2 * T.talCount > totalStyles
            THEN [T EXCEPT !.hysteresisTal = @ + 100,
                           !.hysteresisCapablanca = @ - 40,
                           !.hysteresisPetrosian = @ - 20]
            ELSE T
        PetrosianRatio(T) ==
            IF 2 * T.petrosianCount > totalStyles
            THEN [T EXCEPT !.hysteresisPetrosian = @ + 10,
                           !.hysteresisTal = @ - 5,
                           !.hysteresisCapablanca = @ - 5]
            ELSE T
        CapablancaRatio(T) ==
            IF 5 * T.capablancaCount < totalStyles
            THEN [T EXCEPT !.hysteresisCapablanca = @ - 50,
                           !.hysteresisTal = @ + 30]
            ELSE T
        Counted(T) == [T EXCEPT !.moveCounter = @ + 1]
        Reset(T) ==
            IF T.moveCounter > 50 /\ T.capablancaCount < Div(totalStyles, 3)
            THEN [set_shashin_style_string(opts, T, "Capablanca") EXCEPT !.moveCounter = 0]
            ELSE T
    IN  IF NoStylesTracked(totalStyles) THEN S
        ELSE Reset(Counted(ClampHysteresis(
                 CapablancaRatio(PetrosianRatio(TalRatio(SmallDelta(LargeDelta(S))))))))

----------------------------------------------------------------------------
(* The weight blender: evaluate_nnue.cpp.                                  *)

\* A variant that moves the stable phase one call early.
NNUE_determine_dynamic_phase_eager(S, pos) ==
    LET currentPhase == RawPhase(pos)
    IN  IF currentPhase # S.stablePhase
        THEN IF S.stabilityCounter + 1 >= stabilityThreshold - 1
             THEN [S EXCEPT !.stablePhase = currentPhase, !.stabilityCounter = 0]
             ELSE [S EXCEPT !.stabilityCounter = @ + 1]
        ELSE [S EXCEPT !.stabilityCounter = 0]

\* int NNUE::determine_dynamic_phase(pos): the state after the call; the value
\* returned is its stablePhase.
NNUE_determine_dynamic_phase(S, pos) ==
    LET currentPhase == RawPhase(pos)
    IN  IF currentPhase # S.stablePhase
        THEN IF S.stabilityCounter + 1 >= stabilityThreshold
             THEN [S EXCEPT !.stablePhase = currentPhase, !.stabilityCounter = 0]
             ELSE [S EXCEPT !.stabilityCounter = @ + 1]
        ELSE [S EXCEPT !.stabilityCounter = 0]

\* a variant with a weight of 1 for a position without indicators
calculate_tal_weightBiased(indicators) ==
    3 * indicators.centerDominance + 2 * indicators.kingSafety
        + indicators.openFileControl + 1

calculate_tal_weight(indicators) ==
    3 * indicators.centerDominance + 2 * indicators.kingSafety + indicators.openFileControl

calculate_capablanca_weight(indicators) ==
    2 * indicators.materialImbalance + indicators.centerControl + indicators.openFileControl

calculate_petrosian_weight(indicators) ==
    2 * indicators.flankControl + indicators.defensivePosition + indicators.pieceActivity

\* void NNUE::update_weights(phase, pos, talWeight&, petrosianWeight&,
\* capablancaWeight&): the state after the call and the three weights the
\* caller holds afterwards.
NNUE_update_weights(opts, S, phase, pos, talWeight, petrosianWeight, capablancaWeight) ==
    LET unchanged == [S |-> S, tal |-> talWeight, pet |-> petrosianWeight,
                      cap |-> capablancaWeight]
        memo == [lastPhase |-> phase, lastTalWeight |-> talWeight,
                 lastPetrosianWeight |-> petrosianWeight,
                 lastCapablancaWeight |-> capablancaWeight]
        indicators == compute_positional_indicators(pos)
        Strategy(T, tal, pet, cap) ==
            IF opts["NNUE ManualWeights"]
            THEN [T EXCEPT
                    !.StrategyMaterialWeight = opts["NNUE StrategyMaterialWeight"],
                    !.StrategyPositionalWeight = opts["NNUE StrategyPositionalWeight"]]
            ELSE IF phase = 0
            THEN [T EXCEPT !.StrategyMaterialWeight = Div(tal * 2 + pet, 3),
                           !.StrategyPositionalWeight = Div(cap * 2 + pet, 3)]
            ELSE IF phase = 1
            THEN [T EXCEPT !.StrategyMaterialWeight = Div(tal + pet + cap, 3),
                           !.StrategyPositionalWeight = Div(tal + pet + cap, 3)]
            ELSE IF phase = 2
            THEN [T EXCEPT !.StrategyMaterialWeight = Div(pet * 2 + cap, 3),
                           !.StrategyPositionalWeight = Div(cap * 2 + tal, 3)]
            ELSE T
        Updated(tal, pet, cap) ==
            [S |-> Strategy([S EXCEPT !.lastWeights = memo], tal, pet, cap),
             tal |-> tal, pet |-> pet, cap |-> cap]
    IN  IF ~style_is_enabled(opts) THEN unchanged
        ELSE IF S.lastWeights = memo THEN unchanged
        ELSE Updated(
               PhaseBlend(phase, indicators.centerDominance, indicators.kingSafety)
                   + calculate_tal_weight(indicators),
               PhaseBlend(phase, indicators.flankControl, indicators.pieceActivity)
                   + calculate_petrosian_weight(indicators),
               PhaseBlend(phase, indicators.materialImbalance, indicators.centerControl)
                   + calculate_capablanca_weight(indicators))

----------------------------------------------------------------------------
(* dynamic_shashin_style and evaluate: evaluate.cpp.                       *)

toleranceBuffer == 15
minNodeInterval == 50
hysteresisThreshold == 10
hysteresisIncrement == 10
hysteresisDecrement == 5

\* A variant of the node gate that opens after 500 nodes.
NodeGateNarrow(nodesSearched, trigger) == nodesSearched - trigger < 500

\* dynamic_shashin_style: if (nodesSearched - lastNodeTrigger < 1500) return;
NodeGate(nodesSearched, trigger) == nodesSearched - trigger < 1500

\* A variant of the recomputation that stores the base values as they are.
RecomputeStyleUnclamped(S, indicators) ==
    [S EXCEPT !.CurrentStyle.attack =
                  20 + indicators.centerControl - Div(indicators.kingSafety, 4),
              !.CurrentStyle.defense =
                  10 - indicators.centerControl + Div(indicators.kingSafety, 3),
              !.CurrentStyle.balance =
                  25 + Div(indicators.centerControl, 3)
                  - Div(indicators.materialImbalance, 6)]

\* dynamic_shashin_style, "Precalculate values for the CurrentStyle parameters"
\* to "Ensure the total of style components does not exceed 70"
RecomputeStyle(S, indicators) ==
    LET attackBase == 20 + indicators.centerControl - Div(indicators.kingSafety, 4)
        defenseBase == 10 - indicators.centerControl + Div(indicators.kingSafety, 3)
        balanceBase == 25 + Div(indicators.centerControl, 3)
                       - Div(indicators.materialImbalance, 6)
        Rebalanced(T, a, d) ==
            [T EXCEPT !.CurrentStyle.attack = a,
                      !.CurrentStyle.defense = d,
                      !.CurrentStyle.balance = 70 - a - d]
        Limit(T) ==
            IF T.CurrentStyle.attack + T.CurrentStyle.defense + T.CurrentStyle.balance > 70
            THEN Rebalanced(T, Clamp(T.CurrentStyle.attack, 15, 25),
                            Clamp(T.CurrentStyle.defense, 5, 20))
            ELSE T
    IN  Limit([S EXCEPT !.CurrentStyle.attack = Clamp(attackBase, 15, 28),
                        !.CurrentStyle.defense = Clamp(defenseBase, 5, 15),
                        !.CurrentStyle.balance = Clamp(balanceBase, 20, 30)])

\* a variant that favours Tal whatever the material is
newStyleRuleAnyMaterial(score, totalMaterial, attackThreshold, defenseThreshold, balanceThreshold) ==
    IF GreaterThanFloat(score, attackThreshold) THEN "Tal"
    ELSE IF LessThanMinusFloat(score, defenseThreshold) THEN "Petrosian"
    ELSE IF AbsLessThanFloat(score, balanceThreshold) THEN "Capablanca"
    ELSE "none"

\* dynamic_shashin_style, "Determine new style based on dynamic thresholds":
\* the rule of the if chain that matches, the first one in its order
newStyleRule(score, totalMaterial, attackThreshold, defenseThreshold, balanceThreshold) ==
    IF totalMaterial > 2000 /\ GreaterThanFloat(score, attackThreshold) THEN "Tal"
    ELSE IF LessThanMinusFloat(score, defenseThreshold) THEN "Petrosian"
    ELSE IF AbsLessThanFloat(score, balanceThreshold) THEN "Capablanca"
    ELSE "none"

\* a variant that does not remember the style it has applied
ChangeStyleUnremembered(S, newStyle, nodesSearched) ==
    IF newStyle # S.lastStyle
    THEN [set_shashin_style(S, newStyle) EXCEPT !.lastChangeNodes = nodesSearched]
    ELSE S

\* a variant that leaves the node count of the last change as it is
ChangeStyleUntracked(S, newStyle, nodesSearched) ==
    IF newStyle # S.lastStyle
    THEN [set_shashin_style(S, newStyle) EXCEPT !.lastStyle = newStyle]
    ELSE S

\* dynamic_shashin_style, "Change style only if necessary and update state":
\* if (newStyle != lastStyle) { set_shashin_style(newStyle); lastStyle = newStyle;
\* lastChangeNodes = nodesSearched; }
ChangeStyle(S, newStyle, nodesSearched) ==
    IF newStyle # S.lastStyle
    THEN [set_shashin_style(S, newStyle) EXCEPT
            !.lastStyle = newStyle, !.lastChangeNodes = nodesSearched]
    ELSE S

\* dynamic_shashin_style from "lastNodeTrigger = nodesSearched" to its end: the
\* part a call carries out once the node gate has let it pass.  The result is
\* the state after it, the exit it took and the phase it computed (-1: none).
dynamic_shashin_style_triggered(opts, S, pos, score, totalMaterial, nodesSearched, bestPreviousScore) ==
    LET Exit(T, path, ph) == [S |-> T, path |-> path, phase |-> ph]
        phase == Eval_determine_dynamic_phase(pos)
        indicators == compute_positional_indicators(pos)
        deltaScore == Abs(score - bestPreviousScore)
        \* ++moveCounter > 50 && newStyle == Style::Capablanca
        Counted(T, newStyle) ==
            IF T.moveCounter + 1 > 50 /\ newStyle = "Capablanca"
            THEN [T EXCEPT !.moveCounter = 0]
            ELSE [T EXCEPT !.moveCounter = @ + 1]
        Switched(T, newStyle) == ChangeStyle(T, newStyle, nodesSearched)
        Stabilised(T, newStyle) ==
            Counted(recalibrate_parameters(
                        opts, apply_penalty_progression(Switched(T, newStyle)),
                        score, bestPreviousScore),
                    newStyle)
        \* the rule that matched: its style is counted and becomes newStyle
        Chosen(T, rule) ==
            Stabilised([T EXCEPT
                          !.talCount = IF rule = "Tal" THEN @ + 1 ELSE @,
                          !.petrosianCount = IF rule = "Petrosian" THEN @ + 1 ELSE @,
                          !.capablancaCount = IF rule = "Capablanca" THEN @ + 1 ELSE @],
                       IF rule = "none" THEN T.lastStyle ELSE rule)
        Decided(T) ==
            Chosen(T, newStyleRule(
                          score, totalMaterial,
                          FloatThreshold(T.hysteresisTal, T.CurrentStyle.attack),
                          FloatThreshold(T.hysteresisPetrosian, T.CurrentStyle.defense),
                          FloatThreshold(T.hysteresisCapablanca, T.CurrentStyle.balance)))
        Adjusted(T) ==
            ClampHysteresis(
                [T EXCEPT
                   !.hysteresisTal = @ + (IF deltaScore > 50 THEN hysteresisIncrement
                                          ELSE -hysteresisDecrement),
                   !.hysteresisPetrosian = @ + (IF deltaScore < 20 THEN hysteresisIncrement
                                                ELSE -hysteresisDecrement),
                   !.hysteresisCapablanca = @ + (IF Abs(deltaScore) < 30
                                                 THEN hysteresisIncrement
                                                 ELSE -hysteresisDecrement)])
        Recomputed(T) ==
            IF nodesSearched - T.lastChangeNodes < minNodeInterval
            THEN Exit(T, "interval", phase)
            ELSE IF deltaScore < hysteresisThreshold THEN Exit(T, "delta", phase)
            ELSE Exit(Decided(Adjusted(T)), "updated", phase)
        Triggered(T) ==
            IF ~opts["Shashin Dynamic Style"] THEN Exit(T, "static", -1)
            ELSE Recomputed(RecomputeStyle(
                     NNUE_update_weights(opts, T, phase, pos, 20, 20, 20).S, indicators))
    IN  Triggered([S EXCEPT !.lastNodeTrigger = nodesSearched])

\* a variant that stores the score only once the node gate has let the call
\* pass
dynamic_shashin_styleScoreAfterNodeGate(opts, S, pos, score, totalMaterial, nodesSearched, bestPreviousScore) ==
    LET Exit(T, path, ph) == [S |-> T, path |-> path, phase |-> ph]
    IN  IF ~style_is_enabled(opts) THEN Exit(S, "disabled", -1)
        ELSE IF Abs(score - S.lastScore) < toleranceBuffer THEN Exit(S, "score", -1)
        ELSE IF NodeGate(nodesSearched, S.lastNodeTrigger) THEN Exit(S, "node", -1)
        ELSE dynamic_shashin_style_triggered(opts, [S EXCEPT !.lastScore = score], pos, score,
                                             totalMaterial, nodesSearched, bestPreviousScore)

\* void dynamic_shashin_style(pos, score, totalMaterial), called with
\* Threads.nodes_searched() = nodesSearched and
\* Threads.main()->bestPreviousScore = bestPreviousScore.  The result is the
\* state after the call, the exit it took and the phase it computed (-1: none).
dynamic_shashin_style(opts, S, pos, score, totalMaterial, nodesSearched, bestPreviousScore) ==
    LET Exit(T, path, ph) == [S |-> T, path |-> path, phase |-> ph]
        Scored(T) ==
            IF NodeGate(nodesSearched, T.lastNodeTrigger) THEN Exit(T, "node", -1)
            ELSE dynamic_shashin_style_triggered(opts, T, pos, score, totalMaterial,
                                                 nodesSearched, bestPreviousScore)
    IN  IF ~style_is_enabled(opts) THEN Exit(S, "disabled", -1)
        ELSE IF Abs(score - S.lastScore) < toleranceBuffer THEN Exit(S, "score", -1)
        ELSE Scored([S EXCEPT !.lastScore = score])

\* the exits of dynamic_shashin_style that lie after the score gate and the
\* node gate
PastTheRateLimiter == {"static", "interval", "delta", "updated"}

\* the history of the gates after a call of dynamic_shashin_style that took the
\* exit path with the given score, at the given node count if it has read one
Logged(log, path, score, nodesSearched) ==
    [score |-> IF path \in PastTheRateLimiter /\ nodesSearched # -1
               THEN score ELSE log.score,
     nodes |-> IF path \in PastTheRateLimiter /\ nodesSearched # -1
               THEN nodesSearched ELSE log.nodes,
     scoreGate |-> IF path \in {"notcalled", "disabled", "score"}
                   THEN log.scoreGate ELSE score]

\* types.h
VALUE_MATE == 32000
MAX_PLY == 246
VALUE_MATE_IN_MAX_PLY == VALUE_MATE - MAX_PLY
VALUE_TB == VALUE_MATE_IN_MAX_PLY - 1
VALUE_TB_WIN_IN_MAX_PLY == VALUE_TB - MAX_PLY
VALUE_TB_LOSS_IN_MAX_PLY == -VALUE_TB_WIN_IN_MAX_PLY

\* nnue_common.h
OutputScale == 16

\* a variant that weights the two parts whether adjusted is set or not
NNUE_evaluateAlwaysWeighted(S, psqt, positional, delta, adjusted) ==
    LET materialWeight == 1024 - delta + S.StrategyMaterialWeight
        positionalWeight == 1024 + delta + S.StrategyPositionalWeight
    IN  Div(materialWeight * psqt + positionalWeight * positional, 1024 * OutputScale)

\* Value NNUE::evaluate(psqt, positional, delta, adjusted)
NNUE_evaluate(S, psqt, positional, delta, adjusted) ==
    IF adjusted
    THEN LET materialWeight == 1024 - delta + S.StrategyMaterialWeight
             positionalWeight == 1024 + delta + S.StrategyPositionalWeight
         IN  Div(materialWeight * psqt + positionalWeight * positional,
                 1024 * OutputScale)
    ELSE Div(psqt + positional, OutputScale)

\* the engine state as one record, and its assignment to the variables
Machine ==
    [CurrentStyle |-> CurrentStyle,
     hysteresisTal |-> hysteresisTal,
     hysteresisPetrosian |-> hysteresisPetrosian,
     hysteresisCapablanca |-> hysteresisCapablanca,
     talCount |-> talCount,
     petrosianCount |-> petrosianCount,
     capablancaCount |-> capablancaCount,
     moveCounter |-> moveCounter,
     lastScore |-> lastScore,
     lastNodeTrigger |-> lastNodeTrigger,
     lastStyle |-> lastStyle,
     lastChangeNodes |-> lastChangeNodes,
     consecutiveTal |-> consecutiveTal,
     consecutivePetrosian |-> consecutivePetrosian,
     consecutiveCapablanca |-> consecutiveCapablanca,
     StrategyMaterialWeight |-> StrategyMaterialWeight,
     StrategyPositionalWeight |-> StrategyPositionalWeight,
     lastWeights |-> lastWeights,
     stablePhase |-> stablePhase,
     stabilityCounter |-> stabilityCounter]

Becomes(S) ==
    /\ CurrentStyle' = S.CurrentStyle
    /\ hysteresisTal' = S.hysteresisTal
    /\ hysteresisPetrosian' = S.hysteresisPetrosian
    /\ hysteresisCapablanca' = S.hysteresisCapablanca
    /\ talCount' = S.talCount
    /\ petrosianCount' = S.petrosianCount
    /\ capablancaCount' = S.capablancaCount
    /\ moveCounter' = S.moveCounter
    /\ lastScore' = S.lastScore
    /\ lastNodeTrigger' = S.lastNodeTrigger
    /\ lastStyle' = S.lastStyle
    /\ lastChangeNodes' = S.lastChangeNodes
    /\ consecutiveTal' = S.consecutiveTal
    /\ consecutivePetrosian' = S.consecutivePetrosian
    /\ consecutiveCapablanca' = S.consecutiveCapablanca
    /\ StrategyMaterialWeight' = S.StrategyMaterialWeight
    /\ StrategyPositionalWeight' = S.StrategyPositionalWeight
    /\ lastWeights' = S.lastWeights
    /\ stablePhase' = S.stablePhase
    /\ stabilityCounter' = S.stabilityCounter

\* the two functions named determine_dynamic_phase: NNUE:: and Eval::
PhaseFunctions == {"nnue", "style"}

\* the phase a call obtained from each phase function; -1: it did not call it
NoPhase == [f \in PhaseFunctions |-> -1]

\* longest run of differing calls the phase log counts ("3 or more")
MaxRun == 3

\* the phase log after a call of phase function f that found the raw phase raw
\* against the stable phase stable (-1: no phase returned yet) and returned ret
LogPhase(log, f, raw, stable, ret) ==
    [log EXCEPT ![f] = [ret |-> ret,
                        run |-> IF stable = -1 \/ raw = stable THEN 0
                                ELSE IF @.run >= MaxRun THEN @.run ELSE @.run + 1]]

\* Value evaluate(pos): the whole call, made after the search has visited step
\* more nodes; out is the pair the Big network computes for pos.  lastCall
\* keeps in blend the talWeight, petrosianWeight and capablancaWeight that
\* update_weights has left in the caller's variables.
evaluate(pos, out, step, bestPreviousScore) ==
    LET nodesSearched == nodes + step
        score == NNUE_evaluate(Machine, out.psqt, out.positional, 24, FALSE)
        totalMaterial == compute_material_factor(pos)
        phase == determine_phase(pos, totalMaterial)
        called == Options["Shashin Dynamic Style"]
        Styled(T) ==
            IF called
            THEN dynamic_shashin_style(Options, T, pos, score, totalMaterial,
                                       nodesSearched, bestPreviousScore)
            ELSE [S |-> T, path |-> "notcalled", phase |-> -1]
        Returned(d, weights, aggressivityBonus, positionalBonus, defensiveBonus) ==
            /\ nodes' = nodesSearched
            /\ Becomes(d.S)
            /\ lastCall' = [op |-> "evaluate", value |-> "", repeated |-> FALSE,
                            path |-> d.path,
                            ret |-> score + aggressivityBonus + positionalBonus
                                    + defensiveBonus,
                            blend |-> weights,
                            phase |-> [NoPhase EXCEPT !["style"] = d.phase]]
            /\ prevStyleCallNodes' = IF called THEN nodesSearched ELSE prevStyleCallNodes
            /\ phaseLog' = IF d.phase = -1 THEN phaseLog
                           ELSE LogPhase(phaseLog, "style", d.phase,
                                         phaseLog["style"].ret, d.phase)
            /\ lastPassed' = Logged(lastPassed, d.path, score, nodesSearched)
            /\ UNCHANGED <<Options, workers, netVars, traceVars>>
        Weighted(w) ==
            Returned(Styled(w.S), <<w.tal, w.pet, w.cap>>,
                     w.tal * compute_aggressivity(pos),
                     w.cap * compute_position(pos), w.pet * compute_defense(pos))
    IN  Weighted(NNUE_update_weights(Options, Machine, phase, pos, 0, 0, 0))

\* the threads of the pool that search, each calling evaluate on its own
\* position
Workers == {"main", "helper"}

\* evaluate(pos) run by worker t up to the node gate of dynamic_shashin_style,
\* Threads.nodes_searched() having grown by step: update_weights, the score
\* gate with its write of lastScore, and the reading of lastNodeTrigger for the
\* comparison.  A call that does not get past the gate is over with this step;
\* one that does has not yet written lastNodeTrigger.
evaluate_to_node_gate(t, pos, out, step) ==
    LET nodesSearched == nodes + step
        score == NNUE_evaluate(Machine, out.psqt, out.positional, 24, FALSE)
        totalMaterial == compute_material_factor(pos)
        w == NNUE_update_weights(Options, Machine, determine_phase(pos, totalMaterial),
                                 pos, 0, 0, 0)
        d == IF Options["Shashin Dynamic Style"]
             THEN dynamic_shashin_style(Options, w.S, pos, score, totalMaterial,
                                        nodesSearched, 0)
             ELSE [S |-> w.S, path |-> "notcalled", phase |-> -1]
        Call(pc) == [pc |-> pc, pos |-> pos, score |-> score,
                     nodesSearched |-> nodesSearched, seen |-> w.S.lastNodeTrigger,
                     path |-> IF pc = "idle" THEN d.path ELSE "none"]
    IN  /\ workers[t].pc = "idle"
        /\ nodes' = nodesSearched
        /\ IF d.path \in {"notcalled", "disabled", "score", "node"}
           THEN Becomes(d.S) /\ workers' = [workers EXCEPT ![t] = Call("idle")]
           ELSE /\ Becomes([w.S EXCEPT !.lastScore = score])
                /\ workers' = [workers EXCEPT ![t] = Call("passed")]
        /\ lastPassed' = Logged(lastPassed, d.path, score, -1)
        /\ UNCHANGED <<Options, lastCall, prevStyleCallNodes, phaseLog, netVars, traceVars>>

\* the rest of the call of worker t, from lastNodeTrigger = nodesSearched on,
\* carried out on the style state as the other threads have left it
evaluate_from_node_gate(t) ==
    LET call == workers[t]
        d == dynamic_shashin_style_triggered(
                 Options, Machine, call.pos, call.score,
                 compute_material_factor(call.pos), call.nodesSearched, 0)
    IN  /\ call.pc = "passed"
        /\ Becomes(d.S)
        /\ workers' = [workers EXCEPT ![t].pc = "idle", ![t].path = d.path]
        /\ lastPassed' = [lastPassed EXCEPT !.score = call.score,
                                            !.nodes = call.nodesSearched]
        /\ UNCHANGED <<Options, nodes, lastCall, prevStyleCallNodes, phaseLog, netVars, traceVars>>

----------------------------------------------------------------------------
(* The options and their on_change callbacks: ucioption.cpp.               *)

CheckOptions == {"Use Shashin Style", "Shashin Dynamic Style",
                 "Enable Custom Blend", "NNUE ManualWeights"}
BlendOptions == {"Blend Weight Tal", "Blend Weight Capablanca",
                 "Blend Weight Petrosian"}
StrategyOptions == {"NNUE StrategyMaterialWeight", "NNUE StrategyPositionalWeight"}
FileOptions == {"EvalFile", "EvalFileSmall"}
OptionNames ==
    CheckOptions \cup BlendOptions \cup StrategyOptions \cup {"Shashin Style"}
        \cup FileOptions

\* UCI::init(OptionsMap&): the default of every option
DefaultOptions ==
    [n \in OptionNames |->
        CASE n \in CheckOptions -> FALSE
          [] n = "Shashin Style" -> "Capablanca"
          [] n = "Blend Weight Tal" -> 70
          [] n = "Blend Weight Capablanca" -> 0
          [] n = "Blend Weight Petrosian" -> 30
          [] n \in StrategyOptions -> 0
          [] n = "EvalFile" -> EvalFileDefaultName("Big")
          [] n = "EvalFileSmall" -> EvalFileDefaultName("Small")]

\* Option(bool, f), Option(v, min, max, f), Option(var-list, cur, f),
\* Option(const char*, f)
OptionType(n) ==
    CASE n \in CheckOptions -> "check"
      [] n = "Shashin Style" -> "combo"
      [] n \in FileOptions -> "string"
      [] OTHER -> "spin"

\* the limits of a spin option
OptionMin(n) == IF n \in StrategyOptions THEN -12 ELSE 0
OptionMax(n) == IF n \in StrategyOptions THEN 12 ELSE 100

\* The numerals of the model: the float std::stof reads, in tenths, and the int
\* std::stoi reads (it stops at the first character that is not a digit).
Numerals ==
    ("0" :> [tenths |-> 0, int |-> 0]) @@ ("1" :> [tenths |-> 10, int |-> 1])
    @@ ("5" :> [tenths |-> 50, int |-> 5]) @@ ("50" :> [tenths |-> 500, int |-> 50])
    @@ ("80" :> [tenths |-> 800, int |-> 80]) @@ ("100" :> [tenths |-> 1000, int |-> 100])
    @@ ("-12" :> [tenths |-> -120, int |-> -12]) @@ ("-13" :> [tenths |-> -130, int |-> -13])
    @@ ("13" :> [tenths |-> 130, int |-> 13]) @@ ("101" :> [tenths |-> 1010, int |-> 101])
    @@ ("-1" :> [tenths |-> -10, int |-> -1]) @@ ("5.7" :> [tenths |-> 57, int |-> 5])
    @@ ("12.5" :> [tenths |-> 125, int |-> 12])

\* std::stof(v): it throws std::invalid_argument for a text that starts with no
\* number and std::out_of_range for a number no float holds
stof(v) ==
    IF v \in DOMAIN Numerals THEN [ok |-> TRUE, tenths |-> Numerals[v].tenths]
    ELSE [ok |-> FALSE, tenths |-> 0]

\* CaseInsensitiveLess: the text with its letters in lower case, for the texts
\* of the model
LowerCase(v) ==
    CASE v = "Tal" -> "tal"
      [] v = "Capablanca" -> "capablanca"
      [] v = "Petrosian" -> "petrosian"
      [] v = "Foo" -> "foo"
      [] OTHER -> v

\* the tokens of the default value "Capablanca var Tal var Capablanca var
\* Petrosian" of the combo option
ComboTokens == {"Capablanca", "var", "Tal", "Petrosian"}

\* comboMap.count(v) with the case insensitive compare of OptionsMap
ComboCount(v) == \E token \in ComboTokens : LowerCase(token) = LowerCase(v)

\* A variant without the test of the limits of a spin option.
AcceptedAnySpin(n, v) ==
    /\ OptionType(n) # "string" => v # ""
    /\ OptionType(n) = "check" => v \in {"true", "false"}
    /\ OptionType(n) = "combo" => (ComboCount(v) /\ v # "var")

\* Option::operator=: the text fails none of the tests that make it return
\* early (the spin test is made only on a text std::stof reads)
Accepted(n, v) ==
    /\ OptionType(n) # "string" => v # ""
    /\ OptionType(n) = "check" => v \in {"true", "false"}
    /\ OptionType(n) = "spin" =>
           /\ stof(v).tenths >= 10 * OptionMin(n)
           /\ stof(v).tenths <= 10 * OptionMax(n)
    /\ OptionType(n) = "combo" => (ComboCount(v) /\ v # "var")

\* what the option's conversion operators return once currentValue is v:
\* operator int() is std::stoi(currentValue) for a spin and currentValue ==
\* "true" for a check, operator std::string() is currentValue
CurrentValue(n, v) ==
    CASE OptionType(n) = "check" -> v = "true"
      [] OptionType(n) = "spin" -> Numerals[v].int
      [] OTHER -> v

\* w -= std::ceil((float) excess / activeWeights); w = std::max(0, w), applied
\* to a weight that is positive
Trim(w, excess, activeWeights) ==
    IF w > 0 THEN Max(0, w - CeilDiv(excess, activeWeights)) ELSE w

ActiveWeights(tal, cap, pet) ==
    (IF tal > 0 THEN 1 ELSE 0) + (IF cap > 0 THEN 1 ELSE 0) + (IF pet > 0 THEN 1 ELSE 0)

\* The weights a blend callback arrives at: every active weight is trimmed by
\* "Enable Custom Blend"; a "Blend Weight X" callback leaves X as assigned.
TrimmedBlend(n, opts) ==
    LET tal == opts["Blend Weight Tal"]
        cap == opts["Blend Weight Capablanca"]
        pet == opts["Blend Weight Petrosian"]
        total == tal + cap + pet
        excess == total - 100
        act == ActiveWeights(tal, cap, pet)
    IN  IF total > 100 /\ act > 0
        THEN [tal |-> IF n = "Blend Weight Tal" THEN tal ELSE Trim(tal, excess, act),
              cap |-> IF n = "Blend Weight Capablanca" THEN cap ELSE Trim(cap, excess, act),
              pet |-> IF n = "Blend Weight Petrosian" THEN pet ELSE Trim(pet, excess, act)]
        ELSE [tal |-> tal, cap |-> cap, pet |-> pet]

\* void apply_dynamic_shashin_weights(tal&, pet&, cap&, pos): its effect on the
\* engine state (the three weights are locals of the caller)
apply_dynamic_shashin_weights(opts, S, pos) ==
    IF ~opts["Shashin Dynamic Style"] THEN S
    ELSE NNUE_determine_dynamic_phase(S, pos)

\* on_change of option n, run after the option holds its new value: the state
\* after it, the weights it passed to set_shashin_custom_blend (<<>>: none) and
\* whether it asked NNUE::determine_dynamic_phase for the phase of globalPos
on_change(n, opts, S, globalPos) ==
    LET Done(T) == [S |-> T, blend |-> <<>>, phased |-> FALSE]
        Blended(b) == [S |-> set_shashin_custom_blend(S, b.tal, b.pet, b.cap),
                       blend |-> <<b.tal, b.pet, b.cap>>, phased |-> FALSE]
    IN  CASE n = "Use Shashin Style" ->
               IF ~opts[n] THEN Done([S EXCEPT !.CurrentStyle = NeutralStyle])
               ELSE Done(set_shashin_style_string(opts, S, opts["Shashin Style"]))
          [] n = "Shashin Style" -> Done(set_shashin_style_string(opts, S, opts[n]))
          [] n = "NNUE StrategyMaterialWeight" ->
               Done([S EXCEPT !.StrategyMaterialWeight = 10 * opts[n]])
          [] n = "NNUE StrategyPositionalWeight" ->
               Done([S EXCEPT !.StrategyPositionalWeight = 10 * opts[n]])
          [] n = "Enable Custom Blend" ->
               IF opts[n] THEN Blended(TrimmedBlend(n, opts))
               ELSE IF opts["Shashin Dynamic Style"]
               THEN [S |-> apply_dynamic_shashin_weights(opts, S, globalPos),
                     blend |-> <<>>, phased |-> TRUE]
               ELSE Blended(TrimmedBlend(n, opts))
          [] n \in BlendOptions ->
               IF opts["Enable Custom Blend"] THEN Blended(TrimmedBlend(n, opts))
               ELSE Done(S)
          [] OTHER -> Done(S)

\* Option& Option::operator=(v) on option n: "setoption name n value v"
setoption(n, v, globalPos) ==
    LET Repeated == /\ n = "Shashin Style"
                    /\ lastCall.op = n
                    /\ lastCall.value = v
                    /\ lastCall.path = "changed"
        Changed(opts, c) ==
            /\ Options' = opts
            /\ Becomes(c.S)
            /\ lastCall' = [op |-> n, value |-> v, repeated |-> Repeated,
                            path |-> "changed", ret |-> 0,
                            blend |-> c.blend,
                            phase |-> IF c.phased
                                      THEN [NoPhase EXCEPT !["nnue"] = c.S.stablePhase]
                                      ELSE NoPhase]
            /\ phaseLog' = IF c.phased
                           THEN LogPhase(phaseLog, "nnue", RawPhase(globalPos),
                                         stablePhase, c.S.stablePhase)
                           ELSE phaseLog
            /\ UNCHANGED <<nodes, prevStyleCallNodes, workers, lastPassed, netVars, traceVars>>
        Assigned(opts) == Changed(opts, on_change(n, opts, Machine, globalPos))
        Returned(path) ==
            /\ lastCall' = [op |-> n, value |-> v, repeated |-> FALSE,
                            path |-> path, ret |-> 0,
                            blend |-> <<>>, phase |-> NoPhase]
            /\ UNCHANGED <<Options, machineVars, nodes, prevStyleCallNodes, phaseLog, workers,
                           lastPassed, netVars, traceVars>>
    IN  IF v # "" /\ OptionType(n) = "spin" /\ ~stof(v).ok THEN Returned("threw")
        ELSE IF ~Accepted(n, v) THEN Returned("rejected")
        ELSE Assigned([Options EXCEPT ![n] = CurrentValue(n, v)])

----------------------------------------------------------------------------
(* The positions, network outputs and option values of the model.          *)

\* the initial position, White to move
StartPos ==
    [pawns |-> 16, knights |-> 4, bishops |-> 4, rooks |-> 4, queens |-> 2,
     advancedPawns |-> 0, kingSafety |-> 5, openFileControl |-> 0,
     centerDominance |-> 0, materialImbalance |-> 0, centerControl |-> 0,
     flankControl |-> 0, pieceActivity |-> 0, defense |-> 1, aggressivity |-> 1,
     position |-> 6, mobility |-> 20, pawnStructure |-> 60]

\* two rooks, a knight and six pawns of which one is advanced: four attackers
\* on the king, two pieces in the centre, a bishop down for a knight
RookPos ==
    [pawns |-> 6, knights |-> 1, bishops |-> 0, rooks |-> 2, queens |-> 0,
     advancedPawns |-> 1, kingSafety |-> 40, openFileControl |-> 4,
     centerDominance |-> 8, materialImbalance |-> 44, centerControl |-> 2,
     flankControl |-> 1, pieceActivity |-> 2, defense |-> 4, aggressivity |-> 1,
     position |-> 1, mobility |-> 10, pawnStructure |-> 60]

\* a rook and four pawns: a king behind four pawns, all four centre squares
\* occupied, a knight up for a bishop
PawnPos ==
    [pawns |-> 4, knights |-> 0, bishops |-> 0, rooks |-> 1, queens |-> 0,
     advancedPawns |-> 2, kingSafety |-> -20, openFileControl |-> -2,
     centerDominance |-> 1, materialImbalance |-> -44, centerControl |-> 4,
     flankControl |-> -1, pieceActivity |-> -1, defense |-> 0, aggressivity |-> 0,
     position |-> 0, mobility |-> 5, pawnStructure |-> 40]

\* the initial position with the king's attackers and defenders taken as 0:
\* all eight indicators are 0
QuietPos == [StartPos EXCEPT !.kingSafety = 0, !.defense = 0]

\* the network output (psqt, positional) that evaluates to score
Output(score) == [psqt |-> OutputScale * score, positional |-> 0]

\* the texts offered to option n; checks: the texts offered to a check option
OptionValues(n, checks) ==
    CASE n \in CheckOptions -> checks
      [] n = "Shashin Style" -> Styles
      [] n = "Blend Weight Tal" -> {"80", "100"}
      [] n = "Blend Weight Capablanca" -> {"50", "100"}
      [] n = "Blend Weight Petrosian" -> {"0", "1"}
      [] n \in StrategyOptions -> {"-12", "5"}

\* texts no option of its type takes, and texts only some take
OddTexts == {"", "maybe", "var", "Foo", "tal", "x", "1e39", "-13", "13", "101", "-1",
             "5.7", "12.5"}

\* evaluate calls of a search that stops at maxNodes nodes
SearchOver(positions, outputs, steps, bestPreviousScores, maxNodes) ==
    \E pos \in positions, out \in outputs, step \in steps,
       bestPreviousScore \in bestPreviousScores :
        /\ nodes + step <= maxNodes
        /\ evaluate(pos, out, step, bestPreviousScore)

\* setoption commands for the options names, given while globalPos points to
\* one of the positions roots
ConfigureOver(names, checks, roots) ==
    \E n \in names : \E v \in OptionValues(n, checks), globalPos \in roots :
        setoption(n, v, globalPos)

\* the same with the odd texts offered too
AssignOver(names, checks, roots) ==
    \E n \in names : \E v \in OptionValues(n, checks) \cup OddTexts, globalPos \in roots :
        setoption(n, v, globalPos)

----------------------------------------------------------------------------
(* The network files: NNUE::init, NNUE::verify and save_eval(filename).    *)

\* std::vector<std::string> dirs of NNUE::init, DEFAULT_NNUE_DIRECTORY not
\* defined
dirs == <<"<internal>", "", binaryDirectory>>

\* user_eval_file of NNUE::init and NNUE::verify
user_eval_file(opts, t) ==
    LET name == IF t = "Small" THEN EvalFiles[t].default_name
                ELSE opts[EvalFiles[t].option_name]
    IN  IF name = "" THEN EvalFiles[t].default_name ELSE name

\* the globals NNUE::init works on, and the log of its load_eval calls
NetState ==
    [ft |-> featureTransformer, nets |-> network, fileName |-> fileName,
     desc |-> netDescription, everLoaded |-> everLoaded,
     selected |-> [t \in Tiers |-> EvalFiles[t].selected_name], log |-> <<>>]

\* a variant that records the name whatever load_eval has returned
SelectedNameAlways(ret, name, before) == name

\* if (NNUE::load_eval(user_eval_file, stream, netSize))
\*     evalFile.selected_name = user_eval_file;
SelectedName(ret, name, before) == IF ret THEN name ELSE before

\* one load_eval(user_eval_file, stream, netSize) of NNUE::init and the
\* assignment that hangs on it
Attempt(N, t, i, name, s) ==
    LET Loaded(r, selected) ==
            [ft         |-> [N.ft EXCEPT ![t] = r.ft],
             nets       |-> [N.nets EXCEPT ![t] = r.nets],
             fileName   |-> [N.fileName EXCEPT ![t] = name],
             desc       |-> [N.desc EXCEPT ![t] = r.desc],
             everLoaded |-> [N.everLoaded EXCEPT ![t] = @ \/ r.ret],
             selected   |-> [N.selected EXCEPT ![t] = selected],
             log        |-> Append(N.log, [tier |-> t, index |-> i, name |-> name,
                                           stream |-> s, ret |-> r.ret,
                                           before |-> N.selected[t],
                                           after |-> selected])]
        Result(r) == Loaded(r, SelectedName(r.ret, name, N.selected[t]))
    IN  Result(read_parameters(s, t, N.desc[t]))

\* a variant that tries a directory although the name is selected already
TryDirectoryAlways(N, t, i, user) ==
    IF dirs[i] # "<internal>"
    THEN Attempt(N, t, i, user, disk[<<dirs[i], user>>])
    ELSE IF user = EvalFiles[t].default_name
    THEN Attempt(N, t, i, user, gEmbeddedNNUE[t])
    ELSE N

\* the body of the loop over dirs; a file that cannot be opened reads as an
\* empty stream
TryDirectory(N, t, i, user) ==
    IF N.selected[t] = user THEN N
    ELSE IF dirs[i] # "<internal>"
    THEN Attempt(N, t, i, user, disk[<<dirs[i], user>>])
    ELSE IF user = EvalFiles[t].default_name
    THEN Attempt(N, t, i, user, gEmbeddedNNUE[t])
    ELSE N

RECURSIVE TryDirectories(_, _, _, _)
TryDirectories(N, t, i, user) ==
    IF i > Len(dirs) THEN N
    ELSE TryDirectories(TryDirectory(N, t, i, user), t, i + 1, user)

\* void NNUE::init(): the tiers do not touch each other's state, the order in
\* which the map is walked does not show
NNUE_init(opts) ==
    LET Tier(N, t) == TryDirectories(N, t, 1, user_eval_file(opts, t))
        Store(N) ==
            /\ featureTransformer' = N.ft
            /\ network' = N.nets
            /\ fileName' = N.fileName
            /\ netDescription' = N.desc
            /\ everLoaded' = N.everLoaded
            /\ EvalFiles' = [t \in Tiers |->
                               [EvalFiles[t] EXCEPT !.selected_name = N.selected[t]]]
            /\ initLog' = N.log
    IN  /\ Store(Tier(Tier(NetState, "Big"), "Small"))
        /\ lastNet' = [NoCall EXCEPT !.op = "init"]
        /\ UNCHANGED <<damaged, gEmbeddedNNUE, disk, terminated>>

\* a verify that looks at the big network only
NNUE_verifyBigOnly ==
    /\ terminated' = (EvalFiles["Big"].selected_name # user_eval_file(Options, "Big"))
    /\ lastNet' = [NoCall EXCEPT !.op = "verify"]
    /\ initLog' = <<>>
    /\ UNCHANGED <<featureTransformer, network, fileName, netDescription, damaged,
                   everLoaded, EvalFiles, gEmbeddedNNUE, disk>>

\* void NNUE::verify(): exit(EXIT_FAILURE) at the first tier whose selected
\* name is not the requested one
NNUE_verify ==
    /\ terminated' = (\E t \in Tiers :
                         EvalFiles[t].selected_name # user_eval_file(Options, t))
    /\ lastNet' = [NoCall EXCEPT !.op = "verify"]
    /\ initLog' = <<>>
    /\ UNCHANGED <<featureTransformer, network, fileName, netDescription, damaged,
                   everLoaded, EvalFiles, gEmbeddedNNUE, disk>>

\* std::ofstream stream(actualFilename): the stream is good unless the file
\* cannot be created
Writable(name) == name # ReadOnlyName

\* the file once std::ofstream has opened it and save_eval(stream, netSize)
\* has returned
Written(t, name) ==
    IF fileName[t] = "" \/ ~Writable(name) THEN <<>>
    ELSE write_parameters(t, netDescription[t], featureTransformer[t], network[t])

\* a variant that exports under the default name whatever is selected
save_eval_fileAlways(filename, t) ==
    LET actualFilename == IF filename # <<>> THEN filename[1]
                          ELSE EvalFileDefaultName(t)
        saved == fileName[t] # "" /\ Writable(actualFilename)
    IN  /\ disk' = IF Writable(actualFilename)
                   THEN [disk EXCEPT ![<<"", actualFilename>>] = Written(t, actualFilename)]
                   ELSE disk
        /\ lastNet' = [op |-> "export", tier |-> t, ret |-> saved,
                       stream |-> Written(t, actualFilename),
                       name |-> actualFilename, explicit |-> filename # <<>>]
        /\ initLog' = <<>>
        /\ UNCHANGED <<featureTransformer, network, fileName, netDescription, damaged,
                       everLoaded, EvalFiles, gEmbeddedNNUE, terminated>>

\* bool save_eval(const std::optional<std::string>& filename, NetSize netSize):
\* filename is <<>> for no value and <<name>> for a name
save_eval_file(filename, t) ==
    LET actualFilename == IF filename # <<>> THEN filename[1]
                          ELSE EvalFileDefaultName(t)
        saved == fileName[t] # "" /\ Writable(actualFilename)
    IN  /\ IF filename = <<>> /\ EvalFiles[t].selected_name # EvalFileDefaultName(t)
           THEN /\ disk' = disk
                /\ lastNet' = [op |-> "export", tier |-> t, ret |-> FALSE,
                               stream |-> <<>>, name |-> "", explicit |-> FALSE]
           ELSE /\ disk' = IF Writable(actualFilename)
                           THEN [disk EXCEPT ![<<"", actualFilename>>] =
                                     Written(t, actualFilename)]
                           ELSE disk
                /\ lastNet' = [op |-> "export", tier |-> t, ret |-> saved,
                               stream |-> Written(t, actualFilename),
                               name |-> actualFilename, explicit |-> filename # <<>>]
        /\ initLog' = <<>>
        /\ UNCHANGED <<featureTransformer, network, fileName, netDescription, damaged,
                       everLoaded, EvalFiles, gEmbeddedNNUE, terminated>>

\* no operation of the engine yet
NoOp ==
    [op |-> "none", value |-> "", repeated |-> FALSE, path |-> "none", ret |-> 0,
     blend |-> <<>>,
     phase |-> NoPhase]

\* Eval::NNUE::init() in main(), before the command loop
Startup ==
    /\ ~terminated
    /\ NNUE_init(Options)
    /\ lastCall' = [NoOp EXCEPT !.op = "main"]
    /\ UNCHANGED <<Options, machineVars, nodes, prevStyleCallNodes, phaseLog, workers, lastPassed,
                   traceVars>>

\* Option::operator= on EvalFile or EvalFileSmall, a string option: every text
\* is taken, and on_eval_file runs NNUE::init
on_eval_file(n, v) ==
    /\ ~terminated
    /\ Accepted(n, v)
    /\ Options' = [Options EXCEPT ![n] = CurrentValue(n, v)]
    /\ NNUE_init(Options')
    /\ lastCall' = [NoOp EXCEPT !.op = n, !.value = v, !.path = "changed"]
    /\ UNCHANGED <<machineVars, nodes, prevStyleCallNodes, phaseLog, workers, lastPassed,
                   traceVars>>

Verify ==
    /\ ~terminated
    /\ NNUE_verify
    /\ UNCHANGED evalVars

Export ==
    /\ ~terminated
    /\ \E t \in Tiers, filename \in {<<>>, <<ExportName>>, <<ReadOnlyName>>} :
           save_eval_file(filename, t)
    /\ UNCHANGED evalVars

\* the embedded data of a build with embedding
Embedded == [t \in Tiers |-> NetFile(t, 1, <<>>)]

\* The file systems the engine is started in.  A file that is there and sound
\* holds another network in each directory; the file of the big network in the
\* working directory may be damaged.
Disks ==
    LET TierOf(name) == IF name = EvalFileDefaultName("Small") THEN "Small" ELSE "Big"
        FileIn(p) == NetFile(TierOf(p[2]), IF p[1] = "" THEN 1 ELSE 2, <<1>>)
        FilePlaces ==
            {<<"", EvalFileDefaultName("Big")>>,
             <<binaryDirectory, EvalFileDefaultName("Big")>>,
             <<"", CustomName>>, <<"", EvalFileDefaultName("Small")>>}
        DamagedPlaces == {<<"", EvalFileDefaultName("Big")>>}
    IN  {[p \in Paths |->
            IF p \in bad THEN FileIn(p) \o <<0>>
            ELSE IF p \in present THEN FileIn(p)
            ELSE <<>>] : present \in SUBSET FilePlaces, bad \in SUBSET DamagedPlaces}

----------------------------------------------------------------------------
(* The board: material imbalance and trace generation.                     *)

Colors == {"WHITE", "BLACK"}

\* ~c
Opponent(c) == IF c = "WHITE" THEN "BLACK" ELSE "WHITE"

make_piece(c, pt) == [c |-> c, pt |-> pt]

NO_PIECE == [c |-> "NONE", pt |-> "NO_PIECE_TYPE"]

type_of(pc) == pc.pt

\* SQ_A1 .. SQ_H8
Squares == 0 .. 63

\* the square of file f and rank r, both counted from 0
make_square(f, r) == 8 * r + f

\* the middlegame values of the piece types that count as non-pawn material
PieceValue == [KNIGHT |-> 781, BISHOP |-> 825, ROOK |-> 1276, QUEEN |-> 2538]

\* Position::non_pawn_material(c): the value of the knights, bishops, rooks
\* and queens of colour c
non_pawn_material(p, c) ==
    LET Count(pt) == Cardinality({sq \in Squares : p.board[sq] = make_piece(c, pt)})
    IN  Count("KNIGHT") * PieceValue["KNIGHT"] + Count("BISHOP") * PieceValue["BISHOP"]
        + Count("ROOK") * PieceValue["ROOK"] + Count("QUEEN") * PieceValue["QUEEN"]

\* int compute_material_imbalance(pos)
compute_material_imbalance(p) ==
    non_pawn_material(p, "WHITE") - non_pawn_material(p, "BLACK")

\* Position::remove_piece(s)
remove_piece(p, s) == [p EXCEPT !.board[s] = NO_PIECE]

\* Position::put_piece(pc, s)
put_piece(p, pc, s) == [p EXCEPT !.board[s] = pc]

\* the position with the pieces placed, the other squares empty
SetUp(placed, sideToMove, checkers) ==
    [board |-> [sq \in Squares |-> IF sq \in DOMAIN placed THEN placed[sq] ELSE NO_PIECE],
     sideToMove |-> sideToMove, checkers |-> checkers]

\* the position of the start of a game
StartFEN ==
    LET BackRank == <<"ROOK", "KNIGHT", "BISHOP", "QUEEN", "KING", "BISHOP", "KNIGHT",
                      "ROOK">>
    IN  SetUp([sq \in (0 .. 15) \cup (48 .. 63) |->
                  IF sq < 8 THEN make_piece("WHITE", BackRank[sq + 1])
                  ELSE IF sq < 16 THEN make_piece("WHITE", "PAWN")
                  ELSE IF sq < 56 THEN make_piece("BLACK", "PAWN")
                  ELSE make_piece("BLACK", BackRank[sq - 55])],
              "WHITE", FALSE)

\* the square seen from the other side of the board
flip_rank(sq) == 8 * (7 - (sq \div 8)) + (sq % 8)

\* The positions handed to the engine: the kings on e1 and e8; White has any of
\* a rook on a1, a knight on b1 and a pawn on a2, Black any of a rook on a8, a
\* knight on b8 and a pawn on a7; either side is to move.  In the positions
\* with a check, the side not to move has one more rook in front of its king,
\* on e2 or e7, and the e-file between that rook and the other king is empty.
TracePositions ==
    LET Kings == (4 :> make_piece("WHITE", "KING")) @@ (60 :> make_piece("BLACK", "KING"))
        Extras == (0 :> "ROOK") @@ (1 :> "KNIGHT") @@ (8 :> "PAWN")
        White(squares) == [sq \in squares |-> make_piece("WHITE", Extras[sq])]
        Black(squares) ==
            [sq \in {flip_rank(s) : s \in squares} |->
                make_piece("BLACK", Extras[flip_rank(sq)])]
        Checker(sideToMove) ==
            IF sideToMove = "BLACK" THEN 12 :> make_piece("WHITE", "ROOK")
            ELSE 52 :> make_piece("BLACK", "ROOK")
    IN  {SetUp(Kings @@ White(w) @@ Black(b) @@ (IF checkers THEN Checker(c) ELSE <<>>),
               c, checkers) :
            w \in SUBSET DOMAIN Extras, b \in SUBSET DOMAIN Extras, c \in Colors,
            checkers \in BOOLEAN}

\* Position::flip(): the colours of all pieces and the side to move exchanged,
\* the board turned over
flip(p) ==
    [board |-> [sq \in Squares |->
                   LET pc == p.board[flip_rank(sq)]
                   IN  IF pc = NO_PIECE THEN NO_PIECE
                       ELSE make_piece(Opponent(pc.c), pc.pt)],
     sideToMove |-> Opponent(p.sideToMove), checkers |-> p.checkers]

\* what the indicator functions see of a position: the piece counts and the
\* material imbalance of the board, the other indicators as in StartPos
Snapshot(p) ==
    LET Count(pt) == Cardinality({sq \in Squares : type_of(p.board[sq]) = pt})
    IN  [StartPos EXCEPT !.pawns = Count("PAWN"), !.knights = Count("KNIGHT"),
                         !.bishops = Count("BISHOP"), !.rooks = Count("ROOK"),
                         !.queens = Count("QUEEN"),
                         !.materialImbalance = compute_material_imbalance(p)]

\* no trace call is running
NoTrace == [pc |-> "idle", i |-> 0, piece |-> NO_PIECE, entry |-> <<>>]

\* the square the loop of NNUE::trace visits i-th: file by file, each file
\* from rank 1 to rank 8
LoopSquare(i) == make_square(i \div 8, i % 8)

\* the search engine hands another position to the evaluation
SetPosition ==
    /\ traceCall.pc = "idle"
    /\ rootPos' \in TracePositions
    /\ lastCall' = [NoOp EXCEPT !.op = "position"]
    /\ UNCHANGED <<Options, machineVars, nodes, prevStyleCallNodes, phaseLog, workers,
                   lastPassed, traceCall, netVars>>

\* int compute_material_imbalance(pos) for the position at hand
ImbalanceCall ==
    /\ traceCall.pc = "idle"
    /\ lastCall' = [NoOp EXCEPT !.op = "compute_material_imbalance",
                                !.ret = compute_material_imbalance(rootPos)]
    /\ UNCHANGED <<Options, machineVars, nodes, prevStyleCallNodes, phaseLog, workers,
                   lastPassed, netVars, traceVars>>

\* std::string Eval::trace(pos), up to the loop of NNUE::trace: the return for
\* a position in check, and otherwise the reset of the thread's scratch values
\* (not part of the state here) and the base evaluation
TraceEnter ==
    /\ traceCall.pc = "idle"
    /\ IF rootPos.checkers
       THEN /\ lastCall' = [NoOp EXCEPT !.op = "trace", !.path = "in check"]
            /\ UNCHANGED traceCall
       ELSE /\ lastCall' = [NoOp EXCEPT !.op = "trace", !.path = "entered"]
            /\ traceCall' = [NoTrace EXCEPT !.pc = "loop", !.entry = rootPos.board]
    /\ UNCHANGED <<Options, machineVars, nodes, prevStyleCallNodes, phaseLog, workers,
                   lastPassed, rootPos, netVars>>

\* the loop's test of the piece on the square: it is taken off the board
RemovedInTrace(pc) == pc # NO_PIECE /\ type_of(pc) # "KING"

\* one pass of the loop of NNUE::trace up to the evaluation without the piece:
\* pos.remove_piece(sq) for a piece that is not a king, the next square
\* otherwise
TraceSquare ==
    /\ traceCall.pc = "loop"
    /\ traceCall.i < 64
    /\ LET sq == LoopSquare(traceCall.i)
           pc == rootPos.board[sq]
       IN  IF RemovedInTrace(pc)
           THEN /\ rootPos' = remove_piece(rootPos, sq)
                /\ traceCall' = [traceCall EXCEPT !.pc = "removed", !.piece = pc]
           ELSE /\ traceCall' = [traceCall EXCEPT !.i = @ + 1]
                /\ UNCHANGED rootPos
    /\ UNCHANGED <<Options, machineVars, nodes, lastCall, prevStyleCallNodes, phaseLog,
                   workers, lastPassed, netVars>>

\* a variant that leaves the square empty
TracePutSkipped ==
    /\ traceCall.pc = "removed"
    /\ traceCall' = [traceCall EXCEPT !.pc = "loop", !.i = @ + 1, !.piece = NO_PIECE]
    /\ UNCHANGED <<Options, machineVars, nodes, lastCall, prevStyleCallNodes, phaseLog,
                   workers, lastPassed, rootPos, netVars>>

\* the rest of the pass: pos.put_piece(pc, sq) after the evaluation
TracePut ==
    /\ traceCall.pc = "removed"
    /\ rootPos' = put_piece(rootPos, traceCall.piece, LoopSquare(traceCall.i))
    /\ traceCall' = [traceCall EXCEPT !.pc = "loop", !.i = @ + 1, !.piece = NO_PIECE]
    /\ UNCHANGED <<Options, machineVars, nodes, lastCall, prevStyleCallNodes, phaseLog,
                   workers, lastPassed, netVars>>

\* the loop is over: NNUE::trace writes its tables and returns
TraceLoopEnd ==
    /\ traceCall.pc = "loop"
    /\ traceCall.i = 64
    /\ traceCall' = [traceCall EXCEPT !.pc = "evaluate"]
    /\ lastCall' = [NoOp EXCEPT !.op = "NNUE::trace"]
    /\ UNCHANGED <<Options, machineVars, nodes, prevStyleCallNodes, phaseLog, workers,
                   lastPassed, rootPos, netVars>>

\* v = evaluate(pos) of Eval::trace, outside a search
TraceEvaluate ==
    /\ traceCall.pc = "evaluate"
    /\ lastCall.op = "NNUE::trace"
    /\ evaluate(Snapshot(rootPos), Output(20), 0, 0)

\* return ss.str() of Eval::trace
TraceReturn ==
    /\ traceCall.pc = "evaluate"
    /\ lastCall.op = "evaluate"
    /\ traceCall' = NoTrace
    /\ lastCall' = [NoOp EXCEPT !.op = "trace", !.path = "done"]
    /\ UNCHANGED <<Options, machineVars, nodes, prevStyleCallNodes, phaseLog, workers,
                   lastPassed, rootPos, netVars>>

----------------------------------------------------------------------------
(* Specifications.                                                         *)

\* the globals as their definitions initialise them, the options at their
\* defaults
InitEval ==
    /\ Options = DefaultOptions
    /\ CurrentStyle = NeutralStyle
    /\ hysteresisTal = 200
    /\ hysteresisPetrosian = 300
    /\ hysteresisCapablanca = 100
    /\ talCount = 0
    /\ petrosianCount = 0
    /\ capablancaCount = 0
    /\ moveCounter = 0
    /\ lastScore = 0
    /\ lastNodeTrigger = 0
    /\ lastStyle = "Capablanca"
    /\ lastChangeNodes = 0
    /\ consecutiveTal = 0
    /\ consecutivePetrosian = 0
    /\ consecutiveCapablanca = 0
    /\ StrategyMaterialWeight = 0
    /\ StrategyPositionalWeight = 0
    /\ lastWeights = [lastPhase |-> -1, lastTalWeight |-> -1,
                      lastPetrosianWeight |-> -1, lastCapablancaWeight |-> -1]
    /\ stablePhase = 0
    /\ stabilityCounter = 0
    /\ nodes = 0
    /\ lastCall = NoOp
    /\ prevStyleCallNodes = -1
    /\ phaseLog = [f \in PhaseFunctions |-> [ret |-> -1, run |-> 0]]
    /\ workers = [t \in Workers |->
                     [pc |-> "idle", pos |-> StartPos, score |-> 0, nodesSearched |-> 0,
                      seen |-> 0, path |-> "none"]]
    /\ lastPassed = [score |-> 0, nodes |-> -1, scoreGate |-> 0]
    /\ rootPos = StartFEN
    /\ traceCall = NoTrace

\* the store before any load, the engine idle
InitStore == InitNet /\ InitEval /\ disk = NoFiles /\ gEmbeddedNNUE = EmbeddingOff

SpecNet == InitStore /\ [][NextNet]_vars

SpecRoundTrip == InitStore /\ [][NextRoundTrip]_vars

Init ==
    InitNet /\ damaged = "Big" /\ InitEval /\ disk = NoFiles /\ gEmbeddedNNUE = EmbeddingOff

\* ---- SpecFiles: start-up, EvalFile changes, verify and export ----

InitFiles ==
    /\ InitNet
    /\ damaged = "Big"
    /\ InitEval
    /\ disk \in Disks
    /\ gEmbeddedNNUE \in {Embedded, EmbeddingOff}

AssignEvalFile ==
    \E n \in FileOptions, v \in {EvalFileDefaultName("Big"), CustomName, ""} :
        on_eval_file(n, v)

NextFiles == Startup \/ AssignEvalFile \/ Verify \/ Export

SpecFiles == InitFiles /\ [][NextFiles]_vars

\* ---- Spec: the style state machine under search and style configuration ----

\* the node counter a search stops at
MaxNodes == 2250

Search ==
    SearchOver({StartPos, PawnPos}, {Output(20), Output(400), Output(-700)},
               {750, 1500}, {0}, MaxNodes)

Configure ==
    ConfigureOver({"Use Shashin Style", "Shashin Dynamic Style", "Shashin Style",
                   "Enable Custom Blend", "Blend Weight Tal"}, {"true", "false"}, {StartPos})

Next == Search \/ Configure

Spec == Init /\ [][Next]_vars

\* ---- SpecDrift: a long search of a quiet position, no rule ever matching ----

MaxDriftNodes == 30000

DriftSearch == SearchOver({RookPos}, {Output(160), Output(180)}, {1500}, {0}, MaxDriftNodes)

DriftConfigure ==
    ConfigureOver({"Use Shashin Style", "Shashin Dynamic Style"}, {"true"}, {StartPos})

NextDrift == DriftSearch \/ DriftConfigure

SpecDrift == Init /\ [][NextDrift]_vars

\* ---- SpecBlend: the custom blend options ----

MaxBlendNodes == 1500

BlendSearch == SearchOver({PawnPos}, {Output(20)}, {1500}, {0}, MaxBlendNodes)

BlendConfigure ==
    ConfigureOver(BlendOptions \cup {"Enable Custom Blend", "Use Shashin Style"},
                  {"true", "false"}, {StartPos})

NextBlend == BlendSearch \/ BlendConfigure

SpecBlend == Init /\ [][NextBlend]_vars

\* ---- SpecWeights: the manual strategy weights ----

MaxWeightNodes == 3000

WeightSearch ==
    SearchOver({StartPos, RookPos}, {Output(20), Output(31400), Output(32000)}, {1500},
               {0}, MaxWeightNodes)

WeightConfigure ==
    ConfigureOver(StrategyOptions \cup {"NNUE ManualWeights", "Use Shashin Style"},
                  {"true", "false"}, {StartPos})

NextWeights == WeightSearch \/ WeightConfigure

SpecWeights == Init /\ [][NextWeights]_vars

\* ---- SpecPhase: the two phase functions ----

MaxPhaseNodes == 3000

PhaseSearch ==
    SearchOver({StartPos, PawnPos}, {Output(20), Output(400)}, {1500}, {0}, MaxPhaseNodes)

PhaseConfigure ==
    ConfigureOver({"Use Shashin Style", "Shashin Dynamic Style", "Enable Custom Blend"},
                  {"true", "false"}, {StartPos, PawnPos})

NextPhase == PhaseSearch \/ PhaseConfigure

SpecPhase == Init /\ [][NextPhase]_vars

\* ---- SpecQuiet: the weights on a position without indicators ----

QuietPositions == {QuietPos, PawnPos, RookPos}

QuietSearch == SearchOver(QuietPositions, {Output(20)}, {1500}, {0}, MaxWeightNodes)

NextQuiet == QuietSearch \/ WeightConfigure

SpecQuiet == Init /\ [][NextQuiet]_vars

\* ---- SpecOutput: the scaling of the network output ----

\* Value evaluate(psqt, positional, delta, adjusted) on the output of a forward
\* pass; lastCall keeps the arguments in blend and the result in ret
EvaluateOutput ==
    \E psqt \in {-1000, -17, 0, 15, 16, 4000}, positional \in {-3, 0, 33},
       delta \in {0, 24}, adjusted \in BOOLEAN :
        /\ lastCall' = [NoOp EXCEPT
                           !.op = "NNUE::evaluate",
                           !.path = IF adjusted THEN "adjusted" ELSE "plain",
                           !.ret = NNUE_evaluate(Machine, psqt, positional, delta, adjusted),
                           !.blend = <<psqt, positional, delta>>]
        /\ UNCHANGED <<Options, machineVars, nodes, prevStyleCallNodes, phaseLog, workers,
                       lastPassed, netVars, traceVars>>

NextOutput == EvaluateOutput \/ WeightConfigure

SpecOutput == Init /\ [][NextOutput]_vars

\* ---- SpecOptions: setoption with texts of every kind ----

OptionAssign ==
    AssignOver({"Use Shashin Style", "Shashin Style", "NNUE StrategyMaterialWeight",
                "Blend Weight Tal"}, {"true", "false"}, {StartPos})

NextOptions == OptionAssign

SpecOptions == Init /\ [][NextOptions]_vars

\* ---- SpecPenalty: the penalty progression, call after call ----

\* One call of apply_penalty_progression as dynamic_shashin_style makes it: the
\* hysteresis values are inside the ranges they have just been clamped to, and
\* CurrentStyle is as the style decision has left it, here one of the presets.
\* lastCall keeps in value the style the call counts as dominant, in ret the
\* number of consecutive calls that style has been dominant on since the
\* progression last changed a hysteresis value, and in path whether this call
\* changed one.
PenaltyCall ==
    \E style \in Styles :
        LET before == set_shashin_style(Machine, style)
            after == apply_penalty_progression(before)
            dominant == DominantStyle(before.CurrentStyle)
            Hysteresis(T) ==
                <<T.hysteresisTal, T.hysteresisPetrosian, T.hysteresisCapablanca>>
        IN  /\ ClampHysteresis(Machine) = Machine
            /\ Becomes(after)
            /\ lastCall' =
                 [NoOp EXCEPT
                    !.op = "apply_penalty_progression",
                    !.value = dominant,
                    !.ret = IF /\ lastCall.op = "apply_penalty_progression"
                               /\ lastCall.value = dominant
                               /\ lastCall.path = "idle"
                            THEN lastCall.ret + 1 ELSE 1,
                    !.path = IF Hysteresis(after) # Hysteresis(before)
                             THEN "progressed" ELSE "idle"]
            /\ UNCHANGED <<Options, nodes, prevStyleCallNodes, phaseLog, workers, lastPassed,
                           netVars, traceVars>>

SpecPenalty == Init /\ [][PenaltyCall]_vars

\* ---- SpecBalance: a long search, the Petrosian rule matching on every other
\* ---- update and no rule on the updates between ----

MaxBalanceNodes == 40500

BalanceSearch ==
    SearchOver({StartPos}, {Output(-700), Output(180)}, {1500}, {0},
               MaxBalanceNodes)

SpecBalance == Init /\ [][BalanceSearch \/ DriftConfigure]_vars

\* ---- SpecThreads: two worker threads in evaluate at the same time ----

MaxThreadNodes == 3000

ThreadSearch ==
    \E t \in Workers :
        \/ \E out \in {Output(400), Output(-700)}, step \in {750, 1500} :
              /\ nodes + step <= MaxThreadNodes
              /\ evaluate_to_node_gate(t, StartPos, out, step)
        \/ evaluate_from_node_gate(t)

SpecThreads == Init /\ [][ThreadSearch \/ DriftConfigure]_vars

\* ---- SpecDecision: the style decision at and around its thresholds ----

MaxDecisionNodes == 4500

DecisionSearch ==
    SearchOver({StartPos, RookPos},
               {Output(122), Output(160), Output(180), Output(400), Output(-700)},
               {1500}, {0}, MaxDecisionNodes)

SpecDecision == Init /\ [][DecisionSearch \/ DriftConfigure]_vars

\* ---- SpecRecompute: the recompute step of an accepted update on its own, for
\* ---- every value of the three indicators it reads ----

MaxKingSafety == 24
MaxImbalance == 3

\* The material imbalances offered are the multiples of 17.  lastCall keeps in
\* blend the kingSafety, materialImbalance and centerControl values the step
\* was given.
RecomputeCall ==
    \E kingSafety \in -MaxKingSafety .. MaxKingSafety,
       imbalance \in -MaxImbalance .. MaxImbalance,
       centerControl \in 0 .. 4 :
      /\ Becomes(RecomputeStyle(
             Machine,
             [compute_positional_indicators(StartPos) EXCEPT
                !.kingSafety = kingSafety,
                !.materialImbalance = 17 * imbalance,
                !.centerControl = centerControl]))
      /\ lastCall' = [NoOp EXCEPT
                        !.op = "RecomputeStyle",
                        !.blend = <<kingSafety, 17 * imbalance,
                                    centerControl>>]
      /\ UNCHANGED <<Options, nodes, prevStyleCallNodes, phaseLog, workers,
                     lastPassed, netVars, traceVars>>

SpecRecompute == Init /\ [][RecomputeCall]_vars

\* ---- SpecStyleCall: dynamic_shashin_style called as evaluate.h declares it,
\* ---- whatever the two options hold ----

MaxStyleCallNodes == 4500

\* dynamic_shashin_style(pos, score, totalMaterial) on the initial position,
\* Threads.nodes_searched() having grown by step.  lastCall keeps in path the
\* exit the call took and in ret the score it was given.
DynamicStyleCall ==
    \E score \in {20, 400, -700}, step \in {750, 1500} :
        LET nodesSearched == nodes + step
            d == dynamic_shashin_style(Options, Machine, StartPos, score,
                                       compute_material_factor(StartPos), nodesSearched, 0)
        IN  /\ nodesSearched <= MaxStyleCallNodes
            /\ nodes' = nodesSearched
            /\ Becomes(d.S)
            /\ lastCall' = [NoOp EXCEPT !.op = "dynamic_shashin_style",
                                        !.path = d.path, !.ret = score]
            /\ prevStyleCallNodes' = nodesSearched
            /\ phaseLog' = IF d.phase = -1 THEN phaseLog
                           ELSE LogPhase(phaseLog, "style", d.phase,
                                         phaseLog["style"].ret, d.phase)
            /\ lastPassed' = Logged(lastPassed, d.path, score, nodesSearched)
            /\ UNCHANGED <<Options, workers, netVars, traceVars>>

SpecStyleCall ==
    Init /\ [][ \/ DynamicStyleCall
                \/ ConfigureOver({"Use Shashin Style", "Shashin Dynamic Style"},
                                 {"true", "false"}, {StartPos}) ]_vars

\* ---- SpecBlendCall: set_shashin_custom_blend on its own, for weights that
\* ---- sum to at most 100 as the callbacks pass them ----

BlendWeightSteps == 9

\* set_shashin_custom_blend(talWeight, petrosianWeight, capablancaWeight), each
\* weight one of the BlendWeightSteps + 1 values spread over 0..100.  lastCall
\* keeps the three weights in blend.
BlendCall ==
    \E t \in 0 .. BlendWeightSteps, p \in 0 .. BlendWeightSteps, c \in 0 .. BlendWeightSteps :
        LET talWeight == Div(100 * t, BlendWeightSteps)
            petrosianWeight == Div(100 * p, BlendWeightSteps)
            capablancaWeight == Div(100 * c, BlendWeightSteps)
        IN  /\ talWeight + petrosianWeight + capablancaWeight <= 100
            /\ Becomes(set_shashin_custom_blend(Machine, talWeight, petrosianWeight,
                                                capablancaWeight))
            /\ lastCall' = [NoOp EXCEPT
                              !.op = "set_shashin_custom_blend",
                              !.blend = <<talWeight, petrosianWeight, capablancaWeight>>]
            /\ UNCHANGED <<Options, nodes, prevStyleCallNodes, phaseLog, workers,
                           lastPassed, netVars, traceVars>>

SpecBlendCall == Init /\ [][BlendCall]_vars

\* ---- SpecImbalance: compute_material_imbalance on the positions ----

SpecImbalance == Init /\ [][SetPosition \/ ImbalanceCall]_vars

\* ---- SpecTrace: Eval::trace on the positions, step by step ----

NextTrace ==
    \/ SetPosition
    \/ TraceEnter
    \/ TraceSquare
    \/ TracePut
    \/ TraceLoopEnd
    \/ TraceEvaluate
    \/ TraceReturn

SpecTrace == Init /\ [][NextTrace]_vars

\* ---- SpecLimiter: one thread searching, its calls 750 or 1500 nodes apart
\* and the scores 15 or more apart ----

MaxLimiterNodes == 4500

SpecLimiter ==
    Init /\ [][ \/ SearchOver({StartPos}, {Output(400), Output(385), Output(-700)},
                              {750, 1500}, {0}, MaxLimiterNodes)
                \/ DriftConfigure ]_vars

----------------------------------------------------------------------------
(* Properties of evaluate, the style state machine and the options.        *)

\* the step is a call of dynamic_shashin_style
StyleCall == lastCall'.op = "evaluate" /\ lastCall'.path # "notcalled"

\* the style state the rate limiter protects
StyleState ==
    <<CurrentStyle, hysteresisTal, hysteresisPetrosian, hysteresisCapablanca,
      talCount, petrosianCount, capablancaCount, lastStyle, lastChangeNodes>>

\* C1: the score evaluate(pos) returns lies strictly between
\* VALUE_TB_LOSS_IN_MAX_PLY and VALUE_TB_WIN_IN_MAX_PLY, whatever the position,
\* the network output, the style weights and the strategy weights.
C1_ReturnedScoreInsideTbRange ==
    lastCall.op = "evaluate" =>
        /\ VALUE_TB_LOSS_IN_MAX_PLY < lastCall.ret
        /\ lastCall.ret < VALUE_TB_WIN_IN_MAX_PLY

\* C5: a call of dynamic_shashin_style made fewer than 1500 searched nodes
\* after the previous call of it changes no style state.
C5_SecondCallWithin1500ChangesNothing ==
    [][ (StyleCall /\ prevStyleCallNodes # -1 /\ nodes' - prevStyleCallNodes < 1500)
        => StyleState' = StyleState ]_vars

\* C5 as amended: a call of dynamic_shashin_style made when fewer than 1500
\* nodes were searched since the node count recorded by the last call that
\* passed the node gate (lastNodeTrigger) changes no style state.
C5_CallWithin1500OfTriggerChangesNothing ==
    [][ (StyleCall /\ nodes' - lastNodeTrigger < 1500) => StyleState' = StyleState ]_vars

\* a call turned away by the node gate after an earlier call had passed it
C5_Witness ==
    /\ lastCall.op = "evaluate"
    /\ lastCall.path = "node"
    /\ lastNodeTrigger > 0
    /\ nodes - lastNodeTrigger < 1500

\* C6: after every call of dynamic_shashin_style hysteresisTal is in
\* [150,500], hysteresisPetrosian in [100,400] and hysteresisCapablanca in
\* [30,200].
C6_HysteresisInsideRanges ==
    /\ hysteresisTal \in 150..500
    /\ hysteresisPetrosian \in 100..400
    /\ hysteresisCapablanca \in 30..200

\* C7: in every reachable state CurrentStyle.attack, CurrentStyle.defense and
\* CurrentStyle.balance are in [0,30].
C7_StyleFieldsWithin0And30 ==
    /\ CurrentStyle.attack \in 0..30
    /\ CurrentStyle.defense \in 0..30
    /\ CurrentStyle.balance \in 0..30

\* a dynamic update that left attack and balance at the upper ends of their
\* ranges, made while a custom blend was enabled
C7_Witness ==
    /\ lastCall.op = "evaluate"
    /\ lastCall.path = "updated"
    /\ Options["Enable Custom Blend"]
    /\ CurrentStyle.attack = 28
    /\ CurrentStyle.balance = 30

\* A call of phase function f returns 0, 1 or 2, and it returns a phase other
\* than the one its previous call returned only if the raw phase differed from
\* the stable phase on at least 3 consecutive calls ending with this one.
PhaseStable(f) ==
    lastCall'.phase[f] # -1 =>
        /\ lastCall'.phase[f] \in {0, 1, 2}
        /\ (phaseLog[f].ret # -1 /\ lastCall'.phase[f] # phaseLog[f].ret)
               => phaseLog'[f].run >= 3

\* C8: the phase returned by determine_dynamic_phase, the one the style update
\* uses included, changes from one call to the next only after the raw phase
\* differed from the stable phase on 3 consecutive calls; it is 0, 1 or 2.
C8_PhaseStableForEveryCaller == [][ \A f \in PhaseFunctions : PhaseStable(f) ]_vars

\* C8 as amended: the phase returned by NNUE::determine_dynamic_phase (the one
\* apply_dynamic_shashin_weights uses) changes from one call to the next only
\* after the raw phase differed from the stable phase on 3 consecutive calls;
\* it is 0, 1 or 2.
C8_StabilisedPhaseIsStable == [][ PhaseStable("nnue") ]_vars

\* NNUE::determine_dynamic_phase has just moved the stable phase
C8_Witness ==
    /\ lastCall.phase["nnue"] # -1
    /\ lastCall.phase["nnue"] = stablePhase
    /\ stablePhase # 0
    /\ stabilityCounter = 0
    /\ phaseLog["nnue"].run >= 3

\* C9: while "NNUE ManualWeights" is false, assigning a value to "NNUE
\* StrategyMaterialWeight" or "NNUE StrategyPositionalWeight" leaves
\* StrategyMaterialWeight and StrategyPositionalWeight unchanged.
C9_ManualWeightsIdleWhileToggleOff ==
    [][ (lastCall'.op \in StrategyOptions /\ ~Options["NNUE ManualWeights"])
        => /\ StrategyMaterialWeight' = StrategyMaterialWeight
           /\ StrategyPositionalWeight' = StrategyPositionalWeight ]_vars

\* C10: when the three blend options sum to more than 100, the weights a blend
\* callback passes to set_shashin_custom_blend sum to at most 100, none is
\* negative, a weight of 0 stays 0, and (80,50,0) becomes (65,35,0).
C10_BlendTrimmedTo100 ==
    LET tal == Options["Blend Weight Tal"]
        cap == Options["Blend Weight Capablanca"]
        pet == Options["Blend Weight Petrosian"]
        b == lastCall.blend
    IN  ( /\ lastCall.op \in BlendOptions \cup {"Enable Custom Blend"}
          /\ b # <<>>
          /\ tal + cap + pet > 100 )
        => /\ b[1] + b[2] + b[3] <= 100
           /\ b[1] >= 0 /\ b[2] >= 0 /\ b[3] >= 0
           /\ (tal = 0 => b[1] = 0) /\ (pet = 0 => b[2] = 0) /\ (cap = 0 => b[3] = 0)
           /\ (tal = 80 /\ cap = 50 /\ pet = 0) => b = <<65, 0, 35>>

\* the texts the configuration must turn away: an empty text, a check text
\* other than "true" and "false", a number outside the limits of a spin
\* option, a combo text that is none of the option's styles
MustBeRejected(n, v) ==
    \/ OptionType(n) # "string" /\ v = ""
    \/ OptionType(n) = "check" /\ v \notin {"true", "false"}
    \/ OptionType(n) = "spin" /\ v = "1e39"
    \/ /\ OptionType(n) = "spin"
       /\ v \in DOMAIN Numerals
       /\ \/ Numerals[v].tenths < 10 * OptionMin(n)
          \/ Numerals[v].tenths > 10 * OptionMax(n)
    \/ OptionType(n) = "combo" /\ ~\E style \in Styles : LowerCase(style) = LowerCase(v)

\* C11: assigning to an option an empty text, a check text other than "true"
\* and "false", a spin value outside [min,max] or a combo text not in the
\* option's list leaves the option's value unchanged and does not run
\* on_change: CurrentStyle and the strategy weights are unchanged too.
C11_RejectedAssignmentChangesNothing ==
    [][ (lastCall'.op \in OptionNames /\ MustBeRejected(lastCall'.op, lastCall'.value))
        => /\ lastCall'.path # "changed"
           /\ Options' = Options
           /\ CurrentStyle' = CurrentStyle
           /\ StrategyMaterialWeight' = StrategyMaterialWeight
           /\ StrategyPositionalWeight' = StrategyPositionalWeight ]_vars

\* a strategy weight of 13 turned away after one of 5 had been taken
C11_Witness ==
    /\ lastCall.op = "NNUE StrategyMaterialWeight"
    /\ lastCall.value = "13"
    /\ lastCall.path = "rejected"
    /\ Options["NNUE StrategyMaterialWeight"] = 5
    /\ StrategyMaterialWeight = 50

----------------------------------------------------------------------------
(* Properties of the network files.                                        *)

\* C13: the selected name of a tier changes only on a successful load: a
\* load_eval of NNUE::init that returns false leaves selected_name as it was,
\* and selected_name becomes a name only when it is the requested name and
\* load_eval has returned true for it.
C13_SelectedNameChangesOnlyOnSuccess ==
    [][ /\ \A i \in DOMAIN initLog' :
              ~initLog'[i].ret => initLog'[i].after = initLog'[i].before
        /\ \A t \in Tiers :
              EvalFiles'[t].selected_name # EvalFiles[t].selected_name
                  => /\ lastNet'.op = "init"
                     /\ EvalFiles'[t].selected_name = user_eval_file(Options', t)
                     /\ \E i \in DOMAIN initLog' :
                           /\ initLog'[i].tier = t
                           /\ initLog'[i].ret
                           /\ initLog'[i].name = EvalFiles'[t].selected_name ]_vars

\* a reload of the big network under another name of which every candidate
\* failed, the name selected before still recorded
C13_Witness ==
    /\ lastNet.op = "init"
    /\ EvalFiles["Big"].selected_name = EvalFileDefaultName("Big")
    /\ Options["EvalFile"] = CustomName
    /\ \E i \in DOMAIN initLog :
          /\ initLog[i].tier = "Big"
          /\ ~initLog[i].ret
          /\ initLog[i].before = EvalFileDefaultName("Big")

\* C14: save_eval(filename, T) without a file name returns false and writes no
\* file when the selected name of T is not T's default name; with the default
\* name selected, or with a file name, it writes to that file and returns what
\* save_eval(stream, T) returns.
C14_UnnamedExportOnlyOfTheDefaultNet ==
    [][ lastNet'.op = "export" =>
          LET t == lastNet'.tier
          IN  \E filename \in {<<>>, <<ExportName>>, <<ReadOnlyName>>} :
                 IF filename = <<>> /\ EvalFiles[t].selected_name # EvalFileDefaultName(t)
                 THEN ~lastNet'.ret /\ disk' = disk
                 ELSE LET name == IF filename = <<>> THEN EvalFileDefaultName(t)
                                  ELSE filename[1]
                      IN  /\ lastNet'.name = name
                          /\ lastNet'.explicit = (filename # <<>>)
                          /\ lastNet'.ret = (fileName[t] # "" /\ Writable(name))
                          /\ Writable(name) =>
                                /\ \A p \in Paths \ {<<"", name>>} : disk'[p] = disk[p]
                                /\ disk'[<<"", name>>] =
                                      IF lastNet'.ret
                                      THEN write_parameters(t, netDescription[t],
                                                            featureTransformer[t],
                                                            network[t])
                                      ELSE <<>>
                          /\ ~Writable(name) => disk' = disk ]_vars

\* an export without a file name turned away while the user's network is the
\* selected one
C14_Witness ==
    /\ lastNet.op = "export"
    /\ ~lastNet.explicit
    /\ ~lastNet.ret
    /\ EvalFiles[lastNet.tier].selected_name = CustomName

\* C15 as stated: NNUE::verify ends the process exactly when, for some tier,
\* the selected name is not the name its option asks for (EvalFile for Big,
\* EvalFileSmall for Small, the default name when the option is empty).
C15_VerifyExitsIffSelectedDiffersFromOption ==
    [][ lastNet'.op = "verify" =>
          LET NameInOption(t) ==
                  IF Options[EvalFiles[t].option_name] = ""
                  THEN EvalFiles[t].default_name
                  ELSE Options[EvalFiles[t].option_name]
          IN  terminated' <=>
                  \E t \in Tiers : EvalFiles[t].selected_name # NameInOption(t) ]_vars

\* C15: NNUE::verify ends the process exactly when the selected name of Big is
\* not the name EvalFile asks for (the default name when the option is empty)
\* or the selected name of Small is not Small's default name.
C15_VerifyExitsIffSelectedDiffersFromRequested ==
    [][ lastNet'.op = "verify" =>
          LET NameInEvalFile ==
                  IF Options["EvalFile"] = "" THEN EvalFiles["Big"].default_name
                  ELSE Options["EvalFile"]
          IN  terminated' <=> \/ EvalFiles["Big"].selected_name # NameInEvalFile
                              \/ EvalFiles["Small"].selected_name
                                     # EvalFiles["Small"].default_name ]_vars

\* verify ends the process: EvalFile is empty and the network selected for Big
\* is still the user's
C15_Witness ==
    /\ lastNet.op = "verify"
    /\ terminated
    /\ Options["EvalFile"] = ""
    /\ EvalFiles["Big"].selected_name = CustomName
    /\ EvalFiles["Small"].selected_name = EvalFileDefaultName("Small")

\* C16: NNUE::init tries the places of a tier in the order embedded data,
\* working directory, directory of the executable; after a load that succeeds
\* it makes no further load for the tier, and the parameters in memory are
\* those of that first sound candidate; it makes no load at all for a tier
\* whose requested name is the selected one.
C16_FirstSuccessfulCandidateWins ==
    [][ lastNet'.op = "init" =>
          \A t \in Tiers :
             LET OfTier(e) == e.tier = t
                 A     == SelectSeq(initLog', OfTier)
                 user  == user_eval_file(Options', t)
                 first == IF user = EvalFileDefaultName(t) THEN 1 ELSE 2
             IN  /\ EvalFiles[t].selected_name = user => A = <<>>
                 /\ \A i \in DOMAIN A :
                       /\ A[i].index = first + i - 1
                       /\ A[i].name = user
                       /\ A[i].stream = IF A[i].index = 1 THEN gEmbeddedNNUE[t]
                                        ELSE disk[<<dirs[A[i].index], user>>]
                       /\ A[i].ret => i = Len(A)
                 /\ (A # <<>> /\ A[Len(A)].ret) =>
                       write_parameters(t, netDescription'[t], featureTransformer'[t],
                                        network'[t]) = A[Len(A)].stream
                 /\ (EvalFiles[t].selected_name # user /\ (A = <<>> \/ ~A[Len(A)].ret))
                       => Len(A) = Len(dirs) - first + 1 ]_vars

\* the file of the working directory was loaded and the sound file in the
\* directory of the executable was not tried
C16_Witness ==
    /\ lastNet.op = "init"
    /\ LET OfBig(e) == e.tier = "Big"
           A == SelectSeq(initLog, OfBig)
       IN  /\ Len(A) = 2
           /\ A[2].ret
           /\ disk[<<binaryDirectory, A[2].name>>] = NetFile("Big", 2, <<1>>)
           /\ featureTransformer["Big"] = NetFT(1)

----------------------------------------------------------------------------
(* Properties of the style options.                                        *)

\* C17: once "Use Shashin Style" has been set to false, and once a named style
\* has been selected while it is false, all six fields of CurrentStyle are 0;
\* once it has been set to true, CurrentStyle is the preset of the style the
\* option "Shashin Style" holds.
C17_DisabledIsNeutralEnabledIsSelectedPreset ==
    [][ /\ ( /\ lastCall'.op = "Use Shashin Style"
             /\ lastCall'.path = "changed"
             /\ lastCall'.value = "false" ) => CurrentStyle' = NeutralStyle
        /\ ( /\ lastCall'.op = "Shashin Style"
             /\ lastCall'.path = "changed"
             /\ ~Options'["Use Shashin Style"] ) => CurrentStyle' = NeutralStyle
        /\ ( /\ lastCall'.op = "Use Shashin Style"
             /\ lastCall'.path = "changed"
             /\ lastCall'.value = "true" )
           => \E style \in Styles :
                 /\ LowerCase(style) = LowerCase(Options'["Shashin Style"])
                 /\ CurrentStyle' = Preset(style) ]_vars

\* C18: evaluate(psqt, positional, delta, adjusted = false) is the quotient of
\* psqt + positional by OutputScale, truncated toward zero, whatever the
\* strategy weights, the style and delta are.
C18_PlainResultIsTheScaledSum ==
    (lastCall.op = "NNUE::evaluate" /\ lastCall.path = "plain") =>
        LET sum == lastCall.blend[1] + lastCall.blend[2]
            q   == lastCall.ret
        IN  /\ sum >= 0 => (q >= 0 /\ OutputScale * q <= sum /\ sum < OutputScale * (q + 1))
            /\ sum < 0  => (q <= 0 /\ OutputScale * (q - 1) < sum /\ sum <= OutputScale * q)

\* a plain call on a negative sum that is no multiple of OutputScale, made with
\* both strategy weights away from 0
C18_Witness ==
    /\ lastCall.op = "NNUE::evaluate"
    /\ lastCall.path = "plain"
    /\ lastCall.blend[1] + lastCall.blend[2] = -20
    /\ lastCall.ret = -1
    /\ StrategyMaterialWeight = -120
    /\ StrategyPositionalWeight = 50

\* C19: with "Use Shashin Style" true, selecting the same named style twice in a
\* row leaves CurrentStyle after the second selection as it was after the
\* first.
C19_SelectingAStyleTwiceChangesNothing ==
    [][ ( /\ lastCall'.op = "Shashin Style"
          /\ lastCall'.repeated
          /\ Options'["Use Shashin Style"] )
        => CurrentStyle' = CurrentStyle ]_vars

\* Tal selected a second time, the first selection having replaced a style the
\* dynamic update had computed
C19_Witness ==
    /\ lastCall.op = "Shashin Style"
    /\ lastCall.repeated
    /\ lastCall.value = "Tal"
    /\ Options["Use Shashin Style"]
    /\ CurrentStyle = Preset("Tal")
    /\ moveCounter > 0

\* C20: with "Use Shashin Style" true and "NNUE ManualWeights" false, a call of
\* NNUE::update_weights that is not skipped, made for phase 1 and a position
\* whose eight indicators are 0, leaves the three style weights at 0 and sets
\* both strategy weights to (tal + petrosian + capablanca) / 3.
C20_NoIndicatorsNoWeights ==
    [][ \A pos \in QuietPositions :
          ( /\ \A i \in DOMAIN compute_positional_indicators(pos) :
                  compute_positional_indicators(pos)[i] = 0
            /\ determine_phase(pos, compute_material_factor(pos)) = 1
            /\ Options["Use Shashin Style"]
            /\ ~Options["NNUE ManualWeights"]
            /\ lastWeights # [lastPhase |-> 1, lastTalWeight |-> 0,
                              lastPetrosianWeight |-> 0, lastCapablancaWeight |-> 0]
            /\ evaluate(pos, Output(20), 1500, 0) )
          => /\ lastCall'.blend = <<0, 0, 0>>
             /\ StrategyMaterialWeight'
                    = Div(lastCall'.blend[1] + lastCall'.blend[2] + lastCall'.blend[3], 3)
             /\ StrategyPositionalWeight' = StrategyMaterialWeight' ]_vars

\* the call has replaced the strategy weights a manual option had set: the
\* option is at 5 or -12 and both weights are 0 again
C20_Witness ==
    /\ lastCall.op = "evaluate"
    /\ lastCall.blend = <<0, 0, 0>>
    /\ lastWeights.lastPhase = 1
    /\ Options["Use Shashin Style"]
    /\ ~Options["NNUE ManualWeights"]
    /\ Options["NNUE StrategyMaterialWeight"] # 0
    /\ StrategyMaterialWeight = 0
    /\ StrategyPositionalWeight = 0

----------------------------------------------------------------------------
(* Properties of the style state machine's rules.                          *)

\* C21: with "Use Shashin Style" false, evaluate(pos) returns the non-adjusted
\* Big-network score, (psqt + positional) / OutputScale, whatever the dynamic
\* style option, the hysteresis values, the usage counters and the strategy
\* weights are: no bonus is added and the call changes no style state.
C21_DisabledEvaluateIsThePlainScore ==
    [][ \A pos \in {StartPos, PawnPos},
           out \in {Output(20), Output(400), Output(-700)}, step \in {750, 1500} :
          (~Options["Use Shashin Style"] /\ evaluate(pos, out, step, 0))
          => /\ lastCall'.ret = Div(out.psqt + out.positional, OutputScale)
             /\ lastCall'.blend = <<0, 0, 0>>
             /\ machineVars' = machineVars ]_vars

\* a call made with the style disabled and the dynamic style option on, after
\* dynamic updates had moved the hysteresis, the counters and the strategy
\* weights
C21_Witness ==
    /\ lastCall.op = "evaluate"
    /\ lastCall.path = "disabled"
    /\ ~Options["Use Shashin Style"]
    /\ Options["Shashin Dynamic Style"]
    /\ hysteresisTal # 200
    /\ talCount + petrosianCount + capablancaCount > 0
    /\ StrategyMaterialWeight # 0

\* the hysteresis values and the consecutive-dominance counters by style
HysteresisOf ==
    [style \in Styles |->
        CASE style = "Tal" -> hysteresisTal
          [] style = "Petrosian" -> hysteresisPetrosian
          [] style = "Capablanca" -> hysteresisCapablanca]

\* C22: each time one style has been the dominant style on 5 consecutive calls
\* of apply_penalty_progression, that style's hysteresis is increased by 10,
\* each of the other two is decreased by 5 and that style's counter is reset to
\* 0, for each of the three styles; no other call changes a hysteresis value.
C22_ProgressionOnTheFifthCall ==
    [][ lastCall'.op = "apply_penalty_progression" =>
          IF lastCall'.ret = 5
          THEN /\ \A style \in Styles :
                     HysteresisOf'[style] = HysteresisOf[style]
                         + (IF style = lastCall'.value THEN 10 ELSE -5)
               /\ <<consecutiveTal', consecutivePetrosian', consecutiveCapablanca'>>
                      = <<0, 0, 0>>
          ELSE HysteresisOf' = HysteresisOf ]_vars

\* C22 as amended: each time one style has been the dominant style on 6
\* consecutive calls of apply_penalty_progression (its counter exceeds 5), the
\* hysteresis values change and that style's counter is reset to 0: for Tal
\* and for Petrosian the style's own hysteresis is increased by 10 and each of
\* the other two is decreased by 5, for Capablanca its own hysteresis is
\* decreased by 10 and each of the other two is increased by 5; no other call
\* changes a hysteresis value.
C22_ProgressionOnTheSixthCall ==
    [][ lastCall'.op = "apply_penalty_progression" =>
          IF lastCall'.ret = 6
          THEN /\ \A style \in Styles :
                     HysteresisOf'[style] = HysteresisOf[style]
                         + (IF lastCall'.value = "Capablanca"
                            THEN (IF style = "Capablanca" THEN -10 ELSE 5)
                            ELSE (IF style = lastCall'.value THEN 10 ELSE -5))
               /\ <<consecutiveTal', consecutivePetrosian', consecutiveCapablanca'>>
                      = <<0, 0, 0>>
          ELSE HysteresisOf' = HysteresisOf ]_vars

\* the progression has fired for Capablanca after it had fired for Tal and for
\* Petrosian
C22_Witness ==
    /\ lastCall.op = "apply_penalty_progression"
    /\ lastCall.value = "Capablanca"
    /\ lastCall.ret = 6
    /\ lastCall.path = "progressed"
    /\ hysteresisTal = 210
    /\ hysteresisPetrosian = 310
    /\ hysteresisCapablanca = 80

\* the step is an accepted update on which recalibrate_parameters forced the
\* Capablanca style: it found moveCounter above 50 after its increment and set
\* it to 0, and dynamic_shashin_style then counted the update
BalanceForced ==
    /\ lastCall'.op = "evaluate"
    /\ lastCall'.path = "updated"
    /\ moveCounter >= 50
    /\ moveCounter' = 1

\* C23: the periodic rule forces the Capablanca style only when 50 accepted
\* style updates have taken place since it last fired or since start (so at
\* least 50 calls of evaluate have been made, each 1500 nodes after the one
\* before), and only if capablancaCount is below one third of the total usage
\* count.
C23_BalanceForcedOnlyAfter50Updates ==
    [][ BalanceForced =>
          /\ nodes' >= 50 * 1500
          /\ 3 * capablancaCount' < talCount' + petrosianCount' + capablancaCount' ]_vars

\* C24: a call of NNUE::update_weights that is skipped because phase and the
\* three weights are those of the previous call leaves the caller of evaluate
\* with the three style weights, and the engine with the two strategy weights,
\* that a full recomputation for the same phase and position produces; so
\* evaluate returns the score with the bonuses of the recomputed weights.
C24_SkippedCallEqualsRecomputation ==
    [][ \A pos \in {StartPos, PawnPos},
           out \in {Output(20), Output(400), Output(-700)}, step \in {750, 1500} :
          LET phase == determine_phase(pos, compute_material_factor(pos))
              memo == [lastPhase |-> phase, lastTalWeight |-> 0,
                       lastPetrosianWeight |-> 0, lastCapablancaWeight |-> 0]
              full == NNUE_update_weights(
                          Options, [Machine EXCEPT !.lastWeights.lastPhase = -1],
                          phase, pos, 0, 0, 0)
          IN  ( /\ Options["Use Shashin Style"]
                /\ ~Options["Shashin Dynamic Style"]
                /\ lastWeights = memo
                /\ evaluate(pos, out, step, 0) )
              => /\ lastCall'.blend = <<full.tal, full.pet, full.cap>>
                 /\ StrategyMaterialWeight' = full.S.StrategyMaterialWeight
                 /\ StrategyPositionalWeight' = full.S.StrategyPositionalWeight
                 /\ lastCall'.ret = Div(out.psqt + out.positional, OutputScale)
                        + full.tal * compute_aggressivity(pos)
                        + full.cap * compute_position(pos)
                        + full.pet * compute_defense(pos) ]_vars

\* the style whose rule matched on the step: its usage counter went up
RuleSelected(style) ==
    /\ lastCall'.op = "evaluate"
    /\ lastCall'.path = "updated"
    /\ CASE style = "Tal" -> talCount' = talCount + 1
         [] style = "Petrosian" -> petrosianCount' = petrosianCount + 1
         [] style = "Capablanca" -> capablancaCount' = capablancaCount + 1

\* C25: after an accepted style decision in which a rule selects style S the
\* remembered style is S and CurrentStyle holds the preset of S; and whenever a
\* step has written a preset to CurrentStyle, be it the state machine, the
\* forced-balance rule or a configuration request, the remembered last style
\* names that preset.
C25_LastStyleNamesThePresetWritten ==
    [][ /\ \A style \in Styles :
              RuleSelected(style)
                  => (lastStyle' = style /\ CurrentStyle' = Preset(style))
        /\ (CurrentStyle' # CurrentStyle /\ \E style \in Styles : CurrentStyle' = Preset(style))
               => CurrentStyle' = Preset(lastStyle') ]_vars

\* worker t has got past the node gate on its current or its last call
PastTheGate(t) ==
    \/ workers[t].pc = "passed"
    \/ workers[t].path \in {"static", "interval", "delta", "updated"}

\* C26: the check of the node gate and the write of lastNodeTrigger are two
\* steps of a thread.  A thread gets past the gate only against a
\* lastNodeTrigger value it read that is at least 1500 below its node count,
\* and once past it carries out its re-evaluation and writes its own node
\* count to lastNodeTrigger, whatever the other thread has written meanwhile;
\* so two threads can pass against the same value and both re-evaluate within
\* one 1500-node interval (the witness).
C26_GateCheckedAgainstTheValueRead ==
    [][ \A t \in Workers :
          /\ PastTheGate(t)' => workers'[t].nodesSearched - workers'[t].seen >= 1500
          /\ (workers[t].pc = "idle" /\ workers'[t].pc = "passed")
                 => /\ workers'[t].seen = lastNodeTrigger
                    /\ lastNodeTrigger' = lastNodeTrigger
          /\ (workers[t].pc = "passed" /\ workers'[t].pc = "idle")
                 => /\ lastNodeTrigger' = workers[t].nodesSearched
                    /\ workers'[t].path \in {"static", "interval", "delta", "updated"} ]_vars

\* both threads have passed the gate against lastNodeTrigger = 0, fewer than
\* 1500 nodes apart, and both have carried out a style update: two usage
\* counts, two recomputations of the hysteresis values
C26_Witness ==
    /\ \A t \in Workers : workers[t].pc = "idle" /\ workers[t].path = "updated"
    /\ workers["main"].seen = workers["helper"].seen
    /\ workers["main"].nodesSearched = 1500
    /\ workers["helper"].nodesSearched = 2250
    /\ talCount + petrosianCount + capablancaCount = 2
    /\ moveCounter >= 2

\* The style decision of an accepted update, as C27 states it: the thresholds
\* are taken from the hysteresis values as adjusted by the score delta and
\* clamped and from the recomputed attack, defense and balance; the first rule
\* that matches is the one whose usage counter goes up; when none matches the
\* remembered style stays.  exact: the thresholds are the rational numbers
\* hysteresis * 6/5 + field; otherwise they are the single-precision values of
\* hysteresis * 1.2f + field.  forced: whether the forced-balance rule of the
\* same update may write the Capablanca preset when no rule matches.
StyleDecision(exact, forced) ==
    \A pos \in {StartPos, RookPos},
       out \in {Output(122), Output(160), Output(180), Output(400), Output(-700)} :
      (evaluate(pos, out, 1500, 0) /\ lastCall'.path = "updated") =>
        LET score == Div(out.psqt + out.positional, OutputScale)
            totalMaterial == compute_material_factor(pos)
            deltaScore == Abs(score - 0)
            hTal == Clamp(hysteresisTal + (IF deltaScore > 50 THEN 10 ELSE -5), 150, 500)
            hPetrosian ==
                Clamp(hysteresisPetrosian + (IF deltaScore < 20 THEN 10 ELSE -5), 100, 400)
            hCapablanca ==
                Clamp(hysteresisCapablanca + (IF deltaScore < 30 THEN 10 ELSE -5), 30, 200)
            style == RecomputeStyle(Machine, compute_positional_indicators(pos)).CurrentStyle
            tal == /\ totalMaterial > 2000
                   /\ IF exact THEN 5 * score > 6 * hTal + 5 * style.attack
                      ELSE GreaterThanFloat(score, FloatThreshold(hTal, style.attack))
            petrosian ==
                /\ ~tal
                /\ IF exact THEN 5 * score < -(6 * hPetrosian + 5 * style.defense)
                   ELSE LessThanMinusFloat(score, FloatThreshold(hPetrosian, style.defense))
            capablanca ==
                /\ ~tal
                /\ ~petrosian
                /\ IF exact THEN 5 * Abs(score) < 6 * hCapablanca + 5 * style.balance
                   ELSE AbsLessThanFloat(score, FloatThreshold(hCapablanca, style.balance))
        IN  /\ talCount' = talCount + (IF tal THEN 1 ELSE 0)
            /\ petrosianCount' = petrosianCount + (IF petrosian THEN 1 ELSE 0)
            /\ capablancaCount' = capablancaCount + (IF capablanca THEN 1 ELSE 0)
            /\ tal => lastStyle' = "Tal"
            /\ petrosian => lastStyle' = "Petrosian"
            /\ capablanca => lastStyle' = "Capablanca"
            /\ (~tal /\ ~petrosian /\ ~capablanca) =>
                  /\ lastStyle' = lastStyle
                  /\ \/ CurrentStyle' = style
                     \/ forced /\ BalanceForced /\ CurrentStyle' = Preset("Capablanca")

\* C27: with attackT = hysteresisTal*1.2 + attack, defenseT =
\* hysteresisPetrosian*1.2 + defense and balanceT = hysteresisCapablanca*1.2 +
\* balance, an accepted update selects Tal iff totalMaterial > 2000 and score >
\* attackT, otherwise Petrosian iff score < -defenseT, otherwise Capablanca iff
\* |score| < balanceT; if no rule matches the style stays the remembered style
\* and no preset is written to CurrentStyle.
C27_FirstMatchingRuleOnExactThresholds == [][ StyleDecision(TRUE, FALSE) ]_vars

\* C27 as amended: the same with the three thresholds computed in single
\* precision as hysteresis * 1.2f + field, which for some hysteresis values
\* lies just above hysteresis * 1.2 + field, so that |score| equal to
\* hysteresisCapablanca * 1.2 + balance can select Capablanca; and if no rule
\* matches, the style stays the remembered style and the decision writes no
\* preset to CurrentStyle, while the forced-balance rule of the same update may
\* still write the Capablanca preset.
C27_FirstMatchingRuleOnFloatThresholds == [][ StyleDecision(FALSE, TRUE) ]_vars

\* the third accepted update, the two before it having matched no rule: the
\* score 122 equals hysteresisCapablanca * 1.2 + balance = 85 * 1.2 + 20, and
\* the Capablanca rule has matched
C27_Witness ==
    /\ lastCall.op = "evaluate"
    /\ lastCall.path = "updated"
    /\ lastScore = 122
    /\ CurrentStyle.balance = 20
    /\ moveCounter = 4
    /\ capablancaCount = 1
    /\ talCount + petrosianCount = 0

\* the usage counter of a style
UsageCount(style) ==
    CASE style = "Tal" -> talCount
      [] style = "Petrosian" -> petrosianCount
      [] style = "Capablanca" -> capablancaCount

\* the step is an accepted update of the state machine that changes the
\* remembered style to the given style
StyleChangedTo(style) ==
    /\ lastCall'.op = "evaluate"
    /\ lastCall'.path = "updated"
    /\ lastStyle # style
    /\ lastStyle' = style

\* C28: on an accepted update that changes the style to S, the node count of
\* the last change becomes the node count of the call, the usage counter of S
\* grows by exactly 1 and the usage counters of the other two styles stay as
\* they are.
C28_ChangeRecordsNodesAndCountsTheStyle ==
    [][ \A style \in Styles :
          StyleChangedTo(style) =>
            /\ lastChangeNodes' = nodes'
            /\ UsageCount(style)' = UsageCount(style) + 1
            /\ \A other \in Styles \ {style} : UsageCount(other)' = UsageCount(other) ]_vars

\* two accepted updates have changed the style, first to Petrosian at 1500
\* nodes and then to Tal at 3000 nodes
C28_Witness ==
    /\ lastCall.op = "evaluate"
    /\ lastCall.path = "updated"
    /\ lastStyle = "Tal"
    /\ nodes = 3000
    /\ lastChangeNodes = 3000
    /\ talCount = 1
    /\ petrosianCount = 1
    /\ capablancaCount = 0

\* the step is a call of dynamic_shashin_style that gets past the score gate
\* and the node gate
PassesTheRateLimiter ==
    /\ lastCall'.op = "evaluate"
    /\ lastCall'.path \in PastTheRateLimiter

\* the call of the step is at least 1500 nodes after the most recent earlier
\* call that got past the rate limiter, if there is one
ApartFromTheLastPass ==
    lastPassed.nodes # -1 => lastPassed'.nodes - lastPassed.nodes >= 1500

LeavesBy(path) ==
    /\ lastCall'.op = "evaluate"
    /\ lastCall'.path = path

----------------------------------------------------------------------------
(* Properties of the recompute step, the gates and the configuration.      *)

\* C31: after the recompute step, for every king-safety and material-imbalance
\* value and every center-control value in 0..4, attack + defense + balance is
\* at most 70, attack is in [15,28], defense in [5,15] and balance in [20,30];
\* the rebalancing moves no field out of its range (every field is the base
\* value clamped to its range).
C31_RecomputedStyleInsideRangesAndSum ==
    lastCall.op = "RecomputeStyle" =>
        LET kingSafety == lastCall.blend[1]
            materialImbalance == lastCall.blend[2]
            centerControl == lastCall.blend[3]
        IN  /\ CurrentStyle.attack + CurrentStyle.defense + CurrentStyle.balance <= 70
            /\ CurrentStyle.attack \in 15 .. 28
            /\ CurrentStyle.defense \in 5 .. 15
            /\ CurrentStyle.balance \in 20 .. 30
            /\ CurrentStyle.attack =
                 Clamp(20 + centerControl - Div(kingSafety, 4), 15, 28)
            /\ CurrentStyle.defense =
                 Clamp(10 - centerControl + Div(kingSafety, 3), 5, 15)
            /\ CurrentStyle.balance =
                 Clamp(25 + Div(centerControl, 3) - Div(materialImbalance, 6), 20, 30)

\* the recompute step has clamped all three base values (30, -2 and 34) and
\* left 63, the largest sum the three fields can have
C31_Witness ==
    /\ lastCall.op = "RecomputeStyle"
    /\ lastCall.blend = <<-24, -51, 4>>
    /\ CurrentStyle = [NeutralStyle EXCEPT !.attack = 28, !.defense = 5, !.balance = 30]

\* the state the claim lists: CurrentStyle, the hysteresis values, the usage
\* counters and the records of the rate limiter
StyleAndLimiterState ==
    <<CurrentStyle, hysteresisTal, hysteresisPetrosian, hysteresisCapablanca,
      talCount, petrosianCount, capablancaCount, lastScore, lastNodeTrigger>>

\* C32: a call of dynamic_shashin_style made while "Use Shashin Style" is false
\* or "Shashin Dynamic Style" is false changes no style state: CurrentStyle,
\* the hysteresis values, the usage counters, lastScore and lastNodeTrigger are
\* as before the call.
C32_DisabledCallChangesNoStyleState ==
    [][ ( /\ lastCall'.op = "dynamic_shashin_style"
          /\ ~(Options["Use Shashin Style"] /\ Options["Shashin Dynamic Style"]) )
        => StyleAndLimiterState' = StyleAndLimiterState ]_vars

\* C33: while "Use Shashin Style" is false every field of CurrentStyle is 0,
\* whatever configuration requests and evaluations have been made.
C33_NeutralStyleWhileDisabled ==
    ~Options["Use Shashin Style"] => CurrentStyle = NeutralStyle

\* the consecutive-dominance counter of a style
Consecutive(style) ==
    CASE style = "Tal" -> consecutiveTal
      [] style = "Petrosian" -> consecutivePetrosian
      [] style = "Capablanca" -> consecutiveCapablanca

\* the step is a call of apply_penalty_progression that counts for the given
\* style: its counter advances (or starts again at 0 when the progression is
\* applied) and the counters of the other two styles are 0
CountsFor(style) ==
    /\ \/ Consecutive(style)' = Consecutive(style) + 1
       \/ lastCall'.path = "progressed" /\ Consecutive(style)' = 0
    /\ \A other \in Styles \ {style} : Consecutive(other)' = 0

\* C34: when CurrentStyle is the preset of a style, a call of
\* apply_penalty_progression advances the consecutive-dominance counter of that
\* style and resets the counters of the other two.
C34_DominanceCountedForTheAppliedStyle ==
    [][ \A style \in Styles :
          (lastCall'.op = "apply_penalty_progression" /\ CurrentStyle' = Preset(style))
            => CountsFor(style) ]_vars

\* the step is an accepted update of the state machine that leaves the
\* remembered style as it was
StyleKept ==
    /\ lastCall'.op = "evaluate"
    /\ lastCall'.path = "updated"
    /\ lastStyle' = lastStyle

\* C35: an accepted update that does not change the style leaves talCount,
\* petrosianCount and capablancaCount as they are (so that their sum is the
\* number of style changes the state machine has made).
C35_CountersCountStyleChanges ==
    [][ StyleKept =>
          \A style \in Styles : UsageCount(style)' = UsageCount(style) ]_vars

\* C35 as amended: the usage counters count the accepted updates whose rule
\* selects the style, whether or not that changes the style.  On an accepted
\* update only the counter of the style remembered after it can change, it
\* grows by 1 or stays, and it grows by 1 whenever the style changes; an
\* accepted update that keeps the style may thus count once more for it (the
\* witness), and the sum of the counters is at least the number of changes.
C35_CountersCountRuleMatches ==
    [][ (lastCall'.op = "evaluate" /\ lastCall'.path = "updated") =>
          \A style \in Styles :
            IF style # lastStyle' THEN UsageCount(style)' = UsageCount(style)
            ELSE IF style # lastStyle THEN UsageCount(style)' = UsageCount(style) + 1
            ELSE UsageCount(style)' - UsageCount(style) \in {0, 1} ]_vars

\* two accepted updates have selected Capablanca, the style remembered from
\* the start: the style has never changed and capablancaCount is 2
C35_Witness ==
    /\ lastCall.op = "evaluate"
    /\ lastCall.path = "updated"
    /\ lastStyle = "Capablanca"
    /\ lastChangeNodes = 0
    /\ capablancaCount = 2
    /\ talCount + petrosianCount = 0

\* the attack, defense and balance values of a style record
StyleValues(style) == <<style.attack, style.defense, style.balance>>

\* the weights <<talWeight, petrosianWeight, capablancaWeight>> that put a
\* positive weight on the given style and 0 on the other two
AllWeightOn(style, weights) ==
    /\ weights[1] + weights[2] + weights[3] > 0
    /\ style # "Tal" => weights[1] = 0
    /\ style # "Petrosian" => weights[2] = 0
    /\ style # "Capablanca" => weights[3] = 0

\* C36: for each named style S, set_shashin_custom_blend with a positive weight
\* for S and 0 for the other two styles leaves the attack, defense and balance
\* values of set_shashin_style(S); with all three weights 0 it leaves the
\* Capablanca preset.
C36_BlendOfOneStyleIsThatStyle ==
    lastCall.op = "set_shashin_custom_blend" =>
        /\ \A style \in Styles :
              AllWeightOn(style, lastCall.blend) =>
                  StyleValues(CurrentStyle) = StyleValues(Preset(style))
        /\ lastCall.blend = <<0, 0, 0>> => CurrentStyle = Preset("Capablanca")

\* the value the change callback of a manual strategy option writes
CallbackValue(n) == 10 * Options[n]

\* C37: while "NNUE ManualWeights" is true the strategy weights are one
\* function of the manual option values: an evaluation made when both weights
\* hold what the options' change callbacks wrote leaves them as they are,
\* whether or not NNUE::update_weights writes them again.
C37_ManualWeightsSameFromCallbackAndUpdate ==
    [][ ( /\ Options["NNUE ManualWeights"]
          /\ StrategyMaterialWeight = CallbackValue("NNUE StrategyMaterialWeight")
          /\ StrategyPositionalWeight = CallbackValue("NNUE StrategyPositionalWeight")
          /\ lastCall'.op = "evaluate" )
        => /\ StrategyMaterialWeight' = StrategyMaterialWeight
           /\ StrategyPositionalWeight' = StrategyPositionalWeight ]_vars

----------------------------------------------------------------------------
(* Properties of the board functions.                                      *)

\* C38: compute_material_imbalance returns the non-pawn material of the side
\* to move minus that of its opponent, so the position with the colours of all
\* pieces and the side to move exchanged has the same value.
C38_ImbalanceIsOfTheSideToMove ==
    lastCall.op = "compute_material_imbalance" =>
        /\ lastCall.ret = non_pawn_material(rootPos, rootPos.sideToMove)
                          - non_pawn_material(rootPos, Opponent(rootPos.sideToMove))
        /\ compute_material_imbalance(flip(rootPos)) = lastCall.ret

\* the squares whose piece is not the one the running trace call found there
Absent == {sq \in Squares : rootPos.board[sq] # traceCall.entry[sq]}

\* C39: for a position not in check the board is the board at entry when
\* NNUE::trace and when Eval::trace return; during the call at most one piece
\* is absent, no king is, and a piece is removed only when all others are on
\* their squares; for a position in check Eval::trace changes nothing.
C39_TraceRestoresTheBoard ==
    [][ /\ traceCall'.pc # "idle" =>
              /\ Cardinality(Absent') <= 1
              /\ \A sq \in Absent' :
                    /\ rootPos'.board[sq] = NO_PIECE
                    /\ type_of(traceCall'.entry[sq]) # "KING"
        /\ (traceCall.pc # "idle" /\ traceCall'.pc = "removed" /\ traceCall.pc # "removed")
              => Absent = {}
        /\ (traceCall.pc = "loop" /\ traceCall'.pc = "evaluate")
              => rootPos'.board = traceCall.entry
        /\ (traceCall.pc # "idle" /\ traceCall'.pc = "idle")
              => rootPos'.board = traceCall.entry
        /\ (traceCall.pc = "idle" /\ lastCall'.op = "trace" /\ rootPos.checkers)
              => /\ lastCall'.path = "in check"
                 /\ UNCHANGED <<rootPos, traceCall, Options, machineVars, nodes, netVars>>
      ]_vars

\* Eval::trace has returned for a position with a white rook, a white pawn and
\* a black knight, Black to move and not in check
C39_Witness ==
    /\ lastCall.op = "trace"
    /\ lastCall.path = "done"
    /\ traceCall.pc = "idle"
    /\ rootPos.sideToMove = "BLACK"
    /\ ~rootPos.checkers
    /\ rootPos.board[0] = make_piece("WHITE", "ROOK")
    /\ rootPos.board[8] = make_piece("WHITE", "PAWN")
    /\ rootPos.board[57] = make_piece("BLACK", "KNIGHT")

============================================================================
